---- MODULE Spec2Model ----
(***************************************************************************)
(* AddLidar-API: the LiDAR archive scanner (lidar-zip/scan_and_enqueue.py) *)
(* and the job orchestrator of the API (lidar-api/src/api/routes.py,       *)
(* lidar-api/src/services/k8s_addlidarmanager.py).                         *)
(*                                                                         *)
(* Two specifications share the module:                                    *)
(*   SpecScan  the scanner: one scan after the other over a changing file  *)
(*             tree, with the batch job's catalog updates in between;      *)
(*   Spec      the orchestrator: start-job, stop-job, download, the        *)
(*             watcher threads, the event loop and the push channels.      *)
(***************************************************************************)
EXTENDS Integers, Sequences, FiniteSets, TLC

\* ------------------------------------------------------------------------
\* Bounds of the scanner model
\* ------------------------------------------------------------------------
\* scans started in one behaviour
MaxRuns == 3
\* writes to the file tree in one behaviour
MaxFsWrites == 1
\* files of the directory that is fingerprinted on its own
MaxFiles == 3

\* SQL NULL of a text column; a NULL timestamp is 0
NULL == "NULL"
\* no directory at the path
NoDir == [isdir |-> FALSE, tree |-> {}]
Dir(t) == [isdir |-> TRUE, tree |-> t]

Missions == {"m01", "m02"}
\* rel = os.path.join(level1, level2); mission m02 holds no second-level folder
FolderKeys == {<<"m01", "f01">>, <<"m01", "f02">>}
MissionOf(k) == k[1]

FilePaths == {"a"}
Sizes == {1}
Mtimes == {1, 2}
\* contents of a *.metacloud file; 0 = no such file
MetaBytes == {0, 1, 2}
\* (rel_path, size_bytes, mod_time)
FileInfo == FilePaths \X Sizes \X Mtimes
\* a directory tree: at most one entry per relative path
Trees == {t \in SUBSET FileInfo : \A x, y \in t : x[1] = y[1] => x = y}

VARIABLES
    \* ---- scanner ----
    fsFolder,       \* FolderKeys -> Dir(tree) or NoDir: the tree under ORIG
    fsMeta,         \* Missions -> MetaBytes: bytes of the *.metacloud file, 0 = none
    fsWrites,       \* writes to the tree so far
    folder_state,   \* table folder_state: FolderKeys -> row or NoRow
    potree_metacloud_state, \* table potree_metacloud_state: Missions -> row or NoRow
    batchItems,     \* folder keys handed to a created batch job, not yet finished
    potreeItems,    \* missions handed to a created converter job, not yet finished
    tick,           \* int(time.time()), one tick per scan
    dry_run, max_jobs,  \* args.dry_run, args.max_jobs of the last run
    changed_folders,    \* the folder worklist the last run collected
    metacloud_changes,  \* the manifest worklist the last run collected
    ranToEnd,       \* the last run of main() reached its last line
    chgCur,         \* history: the tree was written since the last run started
    premItems,      \* history: see main
    premAll,        \* history: see main
    premCrash,      \* history: see main
    premChanged     \* history: see main

scanVars == <<fsFolder, fsMeta, fsWrites, folder_state, potree_metacloud_state,
              batchItems, potreeItems, tick, dry_run, max_jobs, changed_folders,
              metacloud_changes, ranToEnd, chgCur, premItems, premAll,
              premCrash, premChanged>>

\* the names start_job generates, "job-" + 8 hex digits, in the order generated
NameSeq == <<"job-a", "job-b">>
JobNames == {NameSeq[i] : i \in DOMAIN NameSeq}
\* what create_k8s_job returns for a name when the creation raised:
\* the pair (error_msg, 1), error_msg holding the name
Tuple(j) == IF j = "job-a" THEN "failed-a" ELSE "failed-b"
RegKeys == JobNames \cup {Tuple(j) : j \in JobNames}
\* a file name that is the same for every job
OutSame(j) == "output-a"
\* unique_filename = "output_" + uuid4().hex + ".bin"
Out(j) == IF j = "job-a" THEN "output-a" ELSE "output-b"
\* the websocket objects
Conns == {"ws1", "ws2"}

\* ---- file_path of a request: pathlib.Path ----
\* a path is its parts: absolute or not, and the segments after the root
Abs(segs) == [abs |-> TRUE, segs |-> segs]
Rel(segs) == [abs |-> FALSE, segs |-> segs]
NoPath == Rel(<<>>)
\* /data/a.las, /data, /data/sub/../a.las, /etc/passwd, /data/../etc/passwd,
\* /database/a.las, data/a.las, /a.las, a.las, /data/b.las
Paths == {Abs(<<"data", "a.las">>), Abs(<<"data">>),
          Abs(<<"data", "sub", "..", "a.las">>),
          Abs(<<"etc", "passwd">>), Abs(<<"data", "..", "etc", "passwd">>),
          Abs(<<"database", "a.las">>), Rel(<<"data", "a.las">>),
          Abs(<<"a.las">>), Rel(<<"a.las">>), Abs(<<"data", "b.las">>)}
\* the path of the requests when the path is not what a behaviour is about
PlainPath == Abs(<<"data", "a.las">>)

VARIABLES
    \* ---- job API ----
    job_statuses,       \* RegKeys -> the job's dict, or NoStatus
    active_connections, \* RegKeys -> websocket, or NULL
    watch_control,      \* RegKeys -> "True" | "False" | NULL (no key)
    watcher,            \* RegKeys -> position of watch_job_status_thread
    k8s,                \* JobNames -> the job object in the cluster
    files,              \* file names under DEFAULT_OUTPUT_ROOT
    conn,               \* Conns -> position of websocket_endpoint, its job, socket state
    ready,              \* the event loop's queue of notify_websocket callbacks and tasks
    closing,            \* notify_websocket tasks waiting in connection.close()
    names,              \* number of job names generated
    answer,             \* JobNames -> the response of the start_job that generated it
    stopped,            \* history: jobs for which stop_job answered success
    nupd,               \* RegKeys -> number of patches applied (the timestamp)
    lastStatus,         \* history: RegKeys -> the last status the registry held
    delivered,          \* history: Conns -> timestamp of the last patch delivered
    file_path,          \* JobNames -> args[0] of the job's container, or NoPath
    rejected,           \* the file_path of the last request answered with a validation error
    restopped,          \* history: jobs for which stop_job answered success again
    load,               \* how many submissions and websocket clients the behaviour has
    chat                \* Conns -> the client's last message or timeout and what the
                        \* handler sent for it

apiVars == <<job_statuses, active_connections, watch_control, watcher, k8s, files, conn,
             ready, closing, names, answer, stopped, nupd, lastStatus, delivered,
             file_path, rejected, restopped, load, chat>>

VARIABLES
    \* ---- a directory and its fingerprint ----
    fpDir,              \* the directory's files: a set of (rel_path, size, mtime)
    fpWalk,             \* the order in which os.walk gave them to the last call
    fpDigest            \* what the last call of fingerprint returned

fpVars == <<fpDir, fpWalk, fpDigest>>

VARIABLES
    \* ---- the watcher threads, one by one ----
    thread,             \* Tids -> the thread of watch_job_status_thread
    lastStep            \* history: the last step a watcher thread took

watchVars == <<thread, lastStep>>

VARIABLES
    \* ---- one registry entry and the patches merged into it ----
    entry,              \* job_statuses[job_name]: the dict's keys and values
    patch,              \* the job_status of the last call of update_job_statuses
    mclock              \* datetime.now() of the last call

mergeVars == <<entry, patch, mclock>>

VARIABLES
    \* ---- collect_changed_folders with statements that raise ----
    raised              \* FolderKeys -> what raised for the folder in the last call

errVars == <<raised>>

vars == <<scanVars, apiVars, fpVars, watchVars, mergeVars, errVars>>

\* ------------------------------------------------------------------------
\* Fingerprinter
\* ------------------------------------------------------------------------
\* the relative paths of the model in the order of Python's str: "\n" is
\* before every letter and "|" after every letter, and a prefix is before
\* the longer string
PathOrder == <<"a", "a|1|1.0\nb", "a|1|1.0\nb|1|1.0\na", "b", "b|1|1.0\na">>

\* tuple order of Python on (rel_path, size, mtime)
PathLt(p, q) ==
    LET at(r) == CHOOSE i \in DOMAIN PathOrder : PathOrder[i] = r
    IN at(p) < at(q)
InfoLt(x, y) ==
    \/ PathLt(x[1], y[1])
    \/ x[1] = y[1] /\ x[2] < y[2]
    \/ x[1] = y[1] /\ x[2] = y[2] /\ x[3] < y[3]

RECURSIVE os_walk(_)
\* the orders in which os.walk may give the files of a directory
os_walk(t) ==
    IF t = {} THEN {<<>>}
    ELSE UNION {{<<x>> \o w : w \in os_walk(t \ {x})} : x \in t}

RECURSIVE sort(_)
\* file_info.sort()
sort(file_info) ==
    IF file_info = <<>> THEN <<>>
    ELSE LET x == Head(file_info)
             rest == sort(Tail(file_info))
             k == Cardinality({i \in DOMAIN rest : InfoLt(rest[i], x)})
         IN SubSeq(rest, 1, k) \o <<x>> \o SubSeq(rest, k + 1, Len(rest))

\* f"{rel_path}|{size_bytes}|{mod_time}\n"; mod_time is a float of whole
\* seconds, which Python prints with ".0"
file_data(x) == x[1] \o "|" \o ToString(x[2]) \o "|" \o ToString(x[3]) \o ".0\n"

RECURSIVE update(_)
\* hasher.update(file_data) for each entry: the text the hasher has been fed
update(file_info) ==
    IF file_info = <<>> THEN ""
    ELSE file_data(Head(file_info)) \o update(Tail(file_info))

\* file_info.sort(), the updates, hasher.hexdigest().  The digest is kept as
\* the text fed to the hasher (SHA-256 taken as injective on it).
hexdigest(file_info) == update(sort(file_info))

RECURSIVE FingerprintsOf(_)
\* the directories of S with what fingerprint returns for each; a directory of
\* the scanner's tree holds one file at most, so that os.walk has one order
FingerprintsOf(S) ==
    IF S = {} THEN <<>>
    ELSE LET t == CHOOSE t \in S : TRUE
         IN (t :> hexdigest(CHOOSE w \in os_walk(t) : TRUE)) @@ FingerprintsOf(S \ {t})

Fingerprints == FingerprintsOf(Trees)

\* fingerprint(path) for a directory of the scanner's tree that holds the files t
fingerprint(t) == Fingerprints[t]

\* fingerprint_file(file_path): SHA-256 of the file's bytes
fingerprint_file(bytes) == "sha256:" \o ToString(bytes)

\* ------------------------------------------------------------------------
\* Change detector
\* ------------------------------------------------------------------------
\* the rule with a third clause that leaves a pending record alone
NeedsProcessingNoPending(row, fp) ==
    IF ~row.present THEN TRUE
    ELSE IF row.fp # fp THEN TRUE
    ELSE row.processing_status \in {"failed", NULL}

\* the rule without its third clause: a failed or pending record with an
\* unchanged fingerprint is left alone
NeedsProcessingNoStatus(row, fp) ==
    IF ~row.present THEN TRUE ELSE row.fp # fp

\* the three-clause rule of collect_changed_folders and scan_for_metacloud_files
NeedsProcessing(row, fp) ==
    IF ~row.present THEN TRUE
    ELSE IF row.fp # fp THEN TRUE
    ELSE row.processing_status \in {"pending", "failed", NULL}

\* an upsert that stamps last_processed instead of clearing it
UpsertFolderStamped(k, fp, now) ==
    [present |-> TRUE, mission_key |-> MissionOf(k), fp |-> fp,
     last_processed |-> now, processing_status |-> "pending"]

\* an upsert that does not store the fingerprint just computed
UpsertFolderKeepFp(k, fp, now) ==
    [present |-> TRUE, mission_key |-> MissionOf(k), fp |-> "",
     last_processed |-> 0, processing_status |-> "pending"]

\* INSERT INTO folder_state ... ON CONFLICT(folder_key) DO UPDATE
UpsertFolder(k, fp, now) ==
    [present |-> TRUE, mission_key |-> MissionOf(k), fp |-> fp,
     last_processed |-> 0, processing_status |-> "pending"]

\* INSERT INTO potree_metacloud_state ... ON CONFLICT(mission_key) DO UPDATE
UpsertMeta(fp, now) ==
    [present |-> TRUE, mission_key |-> NULL, fp |-> fp,
     last_processed |-> 0, processing_status |-> "pending"]

\* fetchone() found no row
NoRow == [present |-> FALSE, mission_key |-> NULL, fp |-> "",
          last_processed |-> 0, processing_status |-> NULL]

Keys(worklist) == {worklist[i][1] : i \in 1..Len(worklist)}

AllComplete(table, keys) ==
    \A k \in keys : table[k].present /\ table[k].processing_status = "complete"

\* os.listdir: the entries of a directory in some order
Orders(S) == {o \in [1..Cardinality(S) -> S] : \A i, j \in DOMAIN o : o[i] = o[j] => i = j}

RECURSIVE collect_changed_folders(_, _, _, _, _)
\* collect_changed_folders(db_manager, dry_run): the loop over the second-level
\* folders in listing order; table and worklist are what the passes so far left
collect_changed_folders(order, table, worklist, dr, now) ==
    IF order = <<>> THEN [table |-> table, worklist |-> worklist]
    ELSE LET k == Head(order)
         IN IF ~fsFolder[k].isdir
            THEN \* not os.path.isdir(src): continue
                 collect_changed_folders(Tail(order), table, worklist, dr, now)
            ELSE LET fp == fingerprint(fsFolder[k].tree)
                     row == table[k]
                 IN IF NeedsProcessing(row, fp)
                    THEN collect_changed_folders(
                             Tail(order),
                             IF dr THEN table
                             ELSE [table EXCEPT ![k] = UpsertFolder(k, fp, now)],
                             Append(worklist, <<k, fp>>), dr, now)
                    ELSE collect_changed_folders(Tail(order), table, worklist, dr, now)

\* what raises inside the try of the loop while a folder is processed:
\* "stat": os.stat of a file in fingerprint, "select": the SELECT,
\* "upsert": the INSERT ... ON CONFLICT or its commit
Raises == {"none", "stat", "select", "upsert"}

\* the file whose os.stat raises
Unreadable == "a"

\* fingerprint(path) raises: os.stat of a file raised and the except block
\* of fingerprint raised it again
fingerprint_raises(t, kind) == kind = "stat" /\ \E x \in t : x[1] = Unreadable

RECURSIVE collect_changed_folders_try(_, _, _, _, _, _)
\* collect_changed_folders(db_manager, dry_run) with the try and the except of
\* the loop: errs[k] is what raises while folder k is processed; the except
\* logs and the loop goes on with the next folder
collect_changed_folders_try(order, table, worklist, dr, now, errs) ==
    IF order = <<>> THEN [table |-> table, worklist |-> worklist]
    ELSE LET k == Head(order)
             rest == Tail(order)
         IN IF ~fsFolder[k].isdir
            THEN collect_changed_folders_try(rest, table, worklist, dr, now, errs)
            ELSE IF fingerprint_raises(fsFolder[k].tree, errs[k]) \/ errs[k] = "select"
            THEN \* get_directory_stats or the SELECT raised: except
                 collect_changed_folders_try(rest, table, worklist, dr, now, errs)
            ELSE LET fp == fingerprint(fsFolder[k].tree)
                 IN IF ~NeedsProcessing(table[k], fp)
                    THEN collect_changed_folders_try(rest, table, worklist, dr, now,
                                                     errs)
                    ELSE \* changed_folders.append([rel, fp]), then the upsert
                         collect_changed_folders_try(
                             rest,
                             IF dr \/ errs[k] = "upsert" THEN table
                             ELSE [table EXCEPT ![k] = UpsertFolder(k, fp, now)],
                             Append(worklist, <<k, fp>>), dr, now, errs)

\* a check that finds every mission in folder_state
MissionInFolderStateAlways(folders, m) == TRUE

\* SELECT 1 FROM folder_state WHERE mission_key=? LIMIT 1
MissionInFolderState(folders, m) ==
    \E k \in FolderKeys : folders[k].present /\ folders[k].mission_key = m

RECURSIVE scan_for_metacloud_files(_, _, _, _, _, _)
\* scan_for_metacloud_files(db_manager, dry_run): the loop over the missions;
\* folders is the table folder_state as collect_changed_folders left it
scan_for_metacloud_files(order, folders, table, worklist, dr, now) ==
    IF order = <<>> THEN [table |-> table, worklist |-> worklist]
    ELSE LET m == Head(order)
         IN IF fsMeta[m] = 0
            THEN \* no .metacloud file in the mission
                 scan_for_metacloud_files(Tail(order), folders, table, worklist, dr, now)
            ELSE IF ~MissionInFolderState(folders, m)
            THEN \* mission not in folder_state
                 scan_for_metacloud_files(Tail(order), folders, table, worklist, dr, now)
            ELSE LET fp == fingerprint_file(fsMeta[m])
                     row == table[m]
                 IN IF NeedsProcessing(row, fp)
                    THEN scan_for_metacloud_files(
                             Tail(order), folders,
                             IF dr THEN table ELSE [table EXCEPT ![m] = UpsertMeta(fp, now)],
                             Append(worklist, <<m, fp>>), dr, now)
                    ELSE \* UPDATE ... SET last_checked: the column is not modelled
                         scan_for_metacloud_files(Tail(order), folders, table, worklist,
                                                  dr, now)

\* changed_folders[:max_jobs]
Truncate(worklist, mj) ==
    IF mj > 0 /\ Len(worklist) > mj THEN SubSeq(worklist, 1, mj) ELSE worklist

\* Before the first scan: the catalog is empty, one folder has been uploaded.
ScanInit ==
    /\ fsFolder = [k \in FolderKeys |->
                      IF k = <<"m01", "f01">> THEN Dir({<<"a", 1, 1>>}) ELSE NoDir]
    /\ fsMeta = [m \in Missions |-> 0]
    /\ fsWrites = 0
    /\ folder_state = [k \in FolderKeys |-> NoRow]
    /\ potree_metacloud_state = [m \in Missions |-> NoRow]
    /\ batchItems = {}
    /\ potreeItems = {}
    /\ tick = 0
    /\ dry_run = FALSE
    /\ max_jobs = 0
    /\ changed_folders = <<>>
    /\ metacloud_changes = <<>>
    /\ ranToEnd = FALSE
    /\ chgCur = FALSE
    /\ premItems = FALSE
    /\ premAll = FALSE
    /\ premCrash = FALSE
    /\ premChanged = FALSE

\* what a second-level path can hold: nothing, or a directory with a tree
FolderContents == {NoDir} \cup {Dir(t) : t \in Trees \ {{}}}

\* ---- the file tree changes (producers of the mission data) ----
FsWriteFolder(k, d) ==
    /\ fsWrites < MaxFsWrites
    /\ fsWrites' = fsWrites + 1
    /\ fsFolder[k] # d
    /\ fsFolder' = [fsFolder EXCEPT ![k] = d]
    /\ chgCur' = TRUE
    /\ UNCHANGED <<apiVars, fpVars, watchVars, mergeVars, errVars, fsMeta, folder_state, potree_metacloud_state, batchItems, potreeItems,
                   tick, dry_run, max_jobs, changed_folders, metacloud_changes, ranToEnd,
                   premItems, premAll,
                   premCrash, premChanged>>

FsWriteMeta(m, v) ==
    /\ fsWrites < MaxFsWrites
    /\ fsWrites' = fsWrites + 1
    /\ fsMeta[m] # v
    /\ fsMeta' = [fsMeta EXCEPT ![m] = v]
    /\ chgCur' = TRUE
    /\ UNCHANGED <<apiVars, fpVars, watchVars, mergeVars, errVars, fsFolder, folder_state, potree_metacloud_state, batchItems,
                   potreeItems, tick, dry_run, max_jobs, changed_folders,
                   metacloud_changes, ranToEnd, premItems, premAll,
                   premCrash, premChanged>>

\* the command lines tried: plain, --dry-run, --max-jobs 1
\* (--export-only, which prints the job instead of creating it, is left out)
Args == {[dry_run |-> FALSE, max_jobs |-> 0],
         [dry_run |-> TRUE, max_jobs |-> 0],
         [dry_run |-> FALSE, max_jobs |-> 1]}

\* the missions in the order main() visits them
MissionOrder == <<"m01", "m02">>

\* ---- main(): one run of the scanner ----
\* a: the parsed arguments; order: the listing of the second-level folders.
\* The cluster either accepts the archive batch job or queue_batch_zip_job
\* raises and main() ends there; a converter job the cluster refuses is
\* logged only.
\* A run reads and writes each catalog row in one place, so a job's update that
\* falls inside a run acts as one before or after the run.
main(a, order) ==
    /\ tick < MaxRuns
    /\ tick' = tick + 1
    /\ dry_run' = a.dry_run
    /\ max_jobs' = a.max_jobs
    /\ chgCur' = FALSE
    \* history: the run before this one ran to its end, the tree was not written
    \* since it started, and every item it emitted is complete now
    /\ premItems' = /\ ranToEnd
                    /\ ~chgCur
                    /\ AllComplete(folder_state, Keys(changed_folders))
                    /\ AllComplete(potree_metacloud_state, Keys(metacloud_changes))
    \* history: the same, the run before was no dry run, and every row of the
    \* catalog is complete now
    /\ premAll' = /\ ranToEnd
                  /\ ~chgCur
                  /\ ~dry_run
                  /\ \A k \in FolderKeys : folder_state[k].present =>
                                           folder_state[k].processing_status = "complete"
                  /\ \A m \in Missions : potree_metacloud_state[m].present =>
                                   potree_metacloud_state[m].processing_status = "complete"
    \* history: this is the second run; the first was no dry run and ended
    \* where queue_batch_zip_job raised, the tree was not written since it
    \* started, and a record it upserted is still pending
    /\ premCrash' = /\ tick = 1
                    /\ ~ranToEnd
                    /\ ~dry_run
                    /\ ~chgCur
                    /\ \E k \in Keys(changed_folders) :
                          folder_state[k].processing_status = "pending"
    \* history: the run finds a complete record whose stored fingerprint is
    \* not the one it computes
    /\ premChanged' = \E k \in FolderKeys :
                          /\ fsFolder[k].isdir
                          /\ folder_state[k].present
                          /\ folder_state[k].processing_status = "complete"
                          /\ folder_state[k].fp # fingerprint(fsFolder[k].tree)
    /\ LET now == tick + 1
           f == collect_changed_folders(order, folder_state, <<>>, a.dry_run, now)
           batch == Truncate(f.worklist, a.max_jobs)
           g == scan_for_metacloud_files(MissionOrder, f.table, potree_metacloud_state,
                                         <<>>, a.dry_run, now)
           pbatch == Truncate(g.worklist, a.max_jobs)
       IN /\ folder_state' = f.table
          /\ changed_folders' = f.worklist
          /\ \/ \* queue_batch_zip_job raised
                /\ batch # <<>>
                /\ ranToEnd' = FALSE
                /\ metacloud_changes' = <<>>
                /\ UNCHANGED <<batchItems, potree_metacloud_state, potreeItems>>
             \/ /\ ranToEnd' = TRUE
                /\ batchItems' = batchItems \cup Keys(batch)
                /\ potree_metacloud_state' = g.table
                /\ metacloud_changes' = g.worklist
                /\ \/ potreeItems' = potreeItems \cup Keys(pbatch)
                   \/ \* queue_potree_conversion_jobs returned None
                      /\ pbatch # <<>>
                      /\ UNCHANGED potreeItems
    /\ UNCHANGED <<apiVars, fpVars, watchVars, mergeVars, errVars, fsFolder, fsMeta, fsWrites>>

\* ---- the batch jobs' own catalog updates (run inside the job's container) ----
\* mark_running(key): pending -> running
mark_running(k) ==
    /\ k \in batchItems
    /\ folder_state[k].present
    /\ folder_state[k].processing_status = "pending"
    /\ folder_state' = [folder_state EXCEPT ![k].processing_status = "running"]
    /\ UNCHANGED <<apiVars, fpVars, watchVars, mergeVars, errVars, fsFolder, fsMeta, fsWrites, potree_metacloud_state, batchItems,
                   potreeItems, tick, dry_run, max_jobs, changed_folders,
                   metacloud_changes, ranToEnd, chgCur, premItems, premAll,
                   premCrash, premChanged>>

\* mark_terminal(key, status, elapsed): running -> complete | failed
mark_terminal(k, status) ==
    /\ k \in batchItems
    /\ folder_state[k].present
    /\ folder_state[k].processing_status = "running"
    /\ folder_state' = [folder_state EXCEPT ![k].processing_status = status,
                                            ![k].last_processed = tick]
    /\ batchItems' = batchItems \ {k}
    /\ UNCHANGED <<apiVars, fpVars, watchVars, mergeVars, errVars, fsFolder, fsMeta, fsWrites, potree_metacloud_state, potreeItems,
                   tick, dry_run, max_jobs, changed_folders, metacloud_changes, ranToEnd,
                   chgCur, premItems, premAll,
                   premCrash, premChanged>>

\* the converter job's transitions of a manifest record
mark_manifest(m, status) ==
    /\ m \in potreeItems
    /\ potree_metacloud_state[m].present
    /\ \/ /\ status = "running"
          /\ potree_metacloud_state[m].processing_status = "pending"
          /\ potree_metacloud_state' =
                [potree_metacloud_state EXCEPT ![m].processing_status = status]
          /\ UNCHANGED potreeItems
       \/ /\ status \in {"complete", "failed"}
          /\ potree_metacloud_state[m].processing_status = "running"
          /\ potree_metacloud_state' =
                [potree_metacloud_state EXCEPT ![m].processing_status = status,
                                               ![m].last_processed = tick]
          /\ potreeItems' = potreeItems \ {m}
    /\ UNCHANGED <<apiVars, fpVars, watchVars, mergeVars, errVars, fsFolder, fsMeta, fsWrites, folder_state, batchItems, tick, dry_run,
                   max_jobs, changed_folders, metacloud_changes, ranToEnd, chgCur,
                   premItems, premAll,
                   premCrash, premChanged>>

ScanNext ==
    \/ \E k \in FolderKeys, d \in FolderContents : FsWriteFolder(k, d)
    \/ \E m \in Missions, v \in MetaBytes : FsWriteMeta(m, v)
    \/ \E a \in Args, order \in Orders(FolderKeys) : main(a, order)
    \/ \E k \in FolderKeys : mark_running(k)
    \/ \E k \in FolderKeys, s \in {"complete", "failed"} : mark_terminal(k, s)
    \/ \E m \in Missions, s \in {"running", "complete", "failed"} : mark_manifest(m, s)

\* ------------------------------------------------------------------------
\* The job API (lidar-api): routes.py and k8s_addlidarmanager.py
\* ------------------------------------------------------------------------
\* no condition type stops the watcher
AUTHORIZED_STATUSES_None == {}

\* the condition types after which the watcher stops
AUTHORIZED_STATUSES == {"Complete", "SuccessCriteriaMet", "Failed", "FailureTarget"}

NoStatus == [present |-> FALSE, status |-> NULL, output_path |-> NULL,
             cli_args |-> FALSE, created_at |-> FALSE, logs |-> NULL, timestamp |-> 0]

\* JobStatus(job_name=..., status=..., message=...): the fields left unset are None
JobStatus(status) == [status |-> status, output_path |-> NULL,
                      cli_args |-> FALSE, created_at |-> FALSE, logs |-> NULL]

\* {**current_status, **new_status} with exclude_unset, exclude_none;
\* merged_status["timestamp"] = now
Merge(current, new, now) ==
    [present |-> TRUE,
     status |-> IF new.status # NULL THEN new.status ELSE current.status,
     output_path |-> IF new.output_path # NULL THEN new.output_path
                     ELSE current.output_path,
     cli_args |-> new.cli_args \/ current.cli_args,
     created_at |-> new.created_at \/ current.created_at,
     logs |-> IF new.logs # NULL THEN new.logs ELSE current.logs,
     timestamp |-> now]

\* the event loop's queue, with the newest entry put first
EnqueueFirst(q, n) == <<n>> \o q

\* loop.call_soon_threadsafe / loop.call_soon: the entry goes to the end
Enqueue(q, n) == Append(q, n)

\* an update that stores the merged status and notifies nobody
update_job_statuses_quiet(st, k, job_status) ==
    LET now == st.n[k] + 1
    IN [st EXCEPT !.reg[k] = Merge(st.reg[k], job_status, now), !.n[k] = now]

\* update_job_statuses(job_name, job_status, loop) on the state
\* st = [reg, conns, q, n]: the registry, active_connections, the loop's queue
\* and the patch counters
update_job_statuses(st, k, job_status) ==
    LET now == st.n[k] + 1
        merged == Merge(st.reg[k], job_status, now)
    IN [st EXCEPT !.reg[k] = merged,
                  !.n[k] = now,
                  !.q = IF st.conns[k] # NULL
                        THEN Enqueue(st.q, [job |-> k, ts |-> now,
                                            status |-> merged.status,
                                            hop |-> "callback", kind |-> "patch"])
                        ELSE st.q]

St == [reg |-> job_statuses, conns |-> active_connections, q |-> ready, n |-> nupd]

\* the registry, the queue and the counters take the values of st
Store(st) ==
    /\ job_statuses' = st.reg
    /\ ready' = st.q
    /\ nupd' = st.n
    /\ lastStatus' = [k \in RegKeys |-> IF st.reg[k].present THEN st.reg[k].status
                                        ELSE lastStatus[k]]

\* ---- the cluster's view of a job ----
NoJob == [phase |-> "none", active |-> 0, conditions |-> <<>>]
NewJob == [phase |-> "live", active |-> 0, conditions |-> <<>>]

\* the condition types the job controller gives a job
ConditionTypes == {"Complete", "SuccessCriteriaMet", "Failed", "FailureTarget"}

\* the job objects of the events
JobObjects == [phase : {"live"}, active : {0, 1},
               conditions : {<<>>} \cup {<<t>> : t \in ConditionTypes}]

\* job.status as the job controller moves it: a pod becomes active, then the
\* job gets its first condition
Successors(s) ==
    IF s.conditions # <<>> THEN {}
    ELSE IF s.active = 0 THEN {[s EXCEPT !.active = 1]}
    ELSE {[s EXCEPT !.active = 0, !.conditions = <<"Complete">>],
          [s EXCEPT !.active = 0, !.conditions = <<"SuccessCriteriaMet">>],
          [s EXCEPT !.active = 0, !.conditions = <<"Failed">>],
          [s EXCEPT !.conditions = <<"FailureTarget">>]}

\* batch_v1.delete_namespaced_job inside delete_k8s_job, which swallows the
\* error when the job is not there
delete_k8s_job(s) == IF s.phase = "live" THEN [s EXCEPT !.phase = "deleting"] ELSE s

\* what get_log_job_status hands back: a string (the pod's logs or an error
\* text), or the tuple of the "No pods found" branch
LogResults == {"str", "tuple"}

\* the behaviours explored: one job with two websocket clients, two jobs,
\* one job whose request has any of the paths, or one job with one websocket
\* client that sends messages and lets the handler's receive time out
Loads == {[jobs |-> 1, sockets |-> 2, paths |-> FALSE, chat |-> FALSE],
          [jobs |-> 2, sockets |-> 0, paths |-> FALSE, chat |-> FALSE],
          [jobs |-> 1, sockets |-> 0, paths |-> TRUE, chat |-> FALSE],
          [jobs |-> 1, sockets |-> 1, paths |-> FALSE, chat |-> TRUE]}

Max(a, b) == IF a >= b THEN a ELSE b

\* nothing received from the client yet
NoChat == [event |-> "none", sent |-> "none", status |-> NULL]

ApiInit ==
    /\ job_statuses = [k \in RegKeys |-> NoStatus]
    /\ active_connections = [k \in RegKeys |-> NULL]
    /\ watch_control = [k \in RegKeys |-> NULL]
    /\ watcher = [k \in RegKeys |-> "none"]
    /\ k8s = [j \in JobNames |-> NoJob]
    /\ files = {}
    /\ conn = [c \in Conns |-> [pc |-> "idle", job |-> NULL, open |-> FALSE,
                                 initial |-> 0, late |-> FALSE, sent |-> 0]]
    /\ ready = <<>>
    /\ closing = {}
    /\ names = 0
    /\ answer = [j \in JobNames |-> [code |-> 0, job_name |-> NULL]]
    /\ stopped = {}
    /\ nupd = [k \in RegKeys |-> 0]
    /\ lastStatus = [k \in RegKeys |-> NULL]
    /\ delivered = [c \in Conns |-> 0]
    /\ file_path = [j \in JobNames |-> NoPath]
    /\ rejected = NoPath
    /\ restopped = {}
    /\ chat = [c \in Conns |-> NoChat]

\* ---- PointCloudRequest.validate_file_exists ----
\* the segments whose text begins with "data"
DataPrefixed == {"data", "database"}
\* str(v).startswith("/data"), "/data" being settings.ROOT_VOLUME
StartsWithRoot(v) == v.abs /\ v.segs # <<>> /\ v.segs[1] \in DataPrefixed
\* ok: the validator returns v; otherwise it raises ValueError.  A relative
\* path raises in v.relative_to("/"), an absolute one is returned unchanged
\* when its text starts with the text of the root
validate_file_exists(v) ==
    IF ~v.abs THEN [ok |-> FALSE, v |-> v]
    ELSE [ok |-> StartsWithRoot(v), v |-> v]
\* the requests a behaviour may send
Requests == IF load.paths THEN Paths ELSE {PlainPath}

\* a status without the fields of the request
CreatedStatusBare(j) == [status |-> "Created", output_path |-> NULL,
                         cli_args |-> FALSE, created_at |-> FALSE, logs |-> NULL]

\* create_k8s_job: JobStatus(status="Created", created_at=now,
\* output_path=unique_filename, cli_args=cli_args)
CreatedStatus(j) == [status |-> "Created", output_path |-> Out(j),
                     cli_args |-> TRUE, created_at |-> TRUE, logs |-> NULL]

\* ---- POST /start-job/ ----
\* created: the cluster accepts the job (otherwise create_k8s_job catches the
\* error and returns the pair Tuple(j) in place of the name);
\* threadOk: thread.start() succeeds (otherwise RuntimeError).
start_job(p, created, threadOk) ==
    /\ names < load.jobs
    /\ p \in Requests
    /\ validate_file_exists(p).ok
    /\ names' = names + 1
    /\ LET j == NameSeq[names + 1]
           \* job_name = create_k8s_job(job_name, cli_args)
           job_name == IF created THEN j ELSE Tuple(j)
           st1 == IF created THEN update_job_statuses(St, j, CreatedStatus(j)) ELSE St
           \* start_watching_job(job_name)
           st2 == IF threadOk THEN st1
                  ELSE update_job_statuses(st1, job_name, JobStatus("Error"))
       IN /\ k8s' = IF created THEN [k8s EXCEPT ![j] = NewJob] ELSE k8s
          \* args = cli_args + ["-o=..."], cli_args[0] = str(self.file_path)
          /\ file_path' = IF created
                          THEN [file_path EXCEPT ![j] = validate_file_exists(p).v]
                          ELSE file_path
          /\ watch_control' = IF watch_control[job_name] # NULL
                              THEN [watch_control EXCEPT ![job_name] = "False"]
                              ELSE watch_control
          /\ watcher' = IF threadOk THEN [watcher EXCEPT ![job_name] = "started"]
                        ELSE watcher
          /\ Store(st2)
          \* return {"job_name": job_name, "status_url": ...}
          /\ answer' = [answer EXCEPT ![j] = [code |-> 200, job_name |-> job_name]]
    /\ UNCHANGED <<scanVars, fpVars, watchVars, mergeVars, errVars, chat, load, rejected, restopped, active_connections, files, conn,
                   closing, stopped, delivered>>

\* the request's file_path fails its validator: FastAPI answers with the
\* validation error and start_job is not entered
start_job_rejected(p) ==
    /\ names < load.jobs
    /\ p \in Requests
    /\ ~validate_file_exists(p).ok
    /\ rejected' = p
    /\ UNCHANGED <<scanVars, fpVars, watchVars, mergeVars, errVars, chat, load, file_path, restopped, job_statuses, active_connections,
                   watch_control, watcher, k8s, files, conn, ready, closing, names, answer,
                   stopped, nupd, lastStatus, delivered>>

\* ---- watch_job_status_thread ----
\* the thread begins: watch_control[job_name] = True
WatcherBegin(k) ==
    /\ watcher[k] = "started"
    /\ watcher' = [watcher EXCEPT ![k] = "list"]
    /\ watch_control' = [watch_control EXCEPT ![k] = "True"]
    /\ UNCHANGED <<scanVars, fpVars, watchVars, mergeVars, errVars, chat, load, file_path, rejected, restopped, job_statuses, active_connections, k8s, files, conn, ready, closing,
                   names, answer, stopped, nupd, lastStatus, delivered>>

\* a watcher that goes on after any status
WatchGoesOn(status) == FALSE

\* if status in AUTHORIZED_STATUSES: delete_k8s_job(...); w.stop(); break
WatchEnds(status) == status \in AUTHORIZED_STATUSES

\* the body of the for loop for an event whose object is the watched job;
\* s is job.status, logs what get_log_job_status returns.
\* outcome: "continue", "stop" (break after a final status) or "raised"
HandleEvent(st, k, s, logs) ==
    LET st1 == IF s.active = 1
               THEN update_job_statuses(st, k, JobStatus("Running"))
               ELSE st
    IN IF s.conditions = <<>> THEN [st |-> st1, outcome |-> "continue"]
       ELSE LET status == s.conditions[1]
            IN IF status \in AUTHORIZED_STATUSES /\ logs = "tuple"
               THEN \* JobStatus(logs=<tuple>) raises: the except branch
                    [st |-> update_job_statuses(st1, k, JobStatus("Error")),
                     outcome |-> "raised"]
               ELSE \* logs=logs if logs else "no logs"
                    [st |-> update_job_statuses(st1, k,
                               [JobStatus(status) EXCEPT
                                   !.logs = IF status \in AUTHORIZED_STATUSES
                                            THEN logs ELSE "no logs"]),
                     outcome |-> IF WatchEnds(status) THEN "stop" ELSE "continue"]

\* the watcher of k receives an event with job.status = s; base is the cluster
\* after the change that made the event
Watched(k, s, logs, base) ==
    IF watch_control[k] = "False"
    THEN \* if not watch_control.get(job_name, True): w.stop(); break; finally
         /\ watcher' = [watcher EXCEPT ![k] = "done"]
         /\ watch_control' = [watch_control EXCEPT ![k] = NULL]
         /\ k8s' = base
         /\ UNCHANGED <<job_statuses, ready, nupd, lastStatus>>
    ELSE LET h == HandleEvent(St, k, s, logs)
         IN /\ Store(h.st)
            /\ watcher' = [watcher EXCEPT ![k] = IF h.outcome = "continue" THEN "watch"
                                                 ELSE "done"]
            /\ watch_control' = IF h.outcome = "continue" THEN watch_control
                                ELSE [watch_control EXCEPT ![k] = NULL]
            /\ k8s' = IF h.outcome = "stop"
                      THEN [base EXCEPT ![k] = delete_k8s_job(base[k])]
                      ELSE base

\* nobody watches the job whose event it is
NotWatched(base) ==
    /\ k8s' = base
    /\ UNCHANGED <<job_statuses, ready, nupd, lastStatus, watcher, watch_control>>

\* w.stream(list_namespaced_job): the stream opens with the jobs that exist
WatchInitial(k, logs) ==
    /\ watcher[k] = "list"
    /\ IF k \in JobNames /\ k8s[k].phase = "live"
       THEN Watched(k, k8s[k], logs, k8s)
       ELSE /\ watcher' = [watcher EXCEPT ![k] = "watch"]
            /\ UNCHANGED <<job_statuses, ready, nupd, lastStatus, watch_control, k8s>>
    /\ UNCHANGED <<scanVars, fpVars, watchVars, mergeVars, errVars, chat, load, file_path, rejected, restopped, active_connections, files, conn, closing, names, answer, stopped,
                   delivered>>

\* the job controller changes job.status; the watcher gets the MODIFIED event
JobEvent(j, next, logs) ==
    /\ k8s[j].phase = "live"
    /\ next \in Successors(k8s[j])
    /\ LET base == [k8s EXCEPT ![j] = next]
       IN IF watcher[j] = "watch" THEN Watched(j, next, logs, base) ELSE NotWatched(base)
    /\ UNCHANGED <<scanVars, fpVars, watchVars, mergeVars, errVars, chat, load, file_path, rejected, restopped, active_connections, files, conn, closing, names, answer, stopped,
                   delivered>>

\* the deleted job goes away; the watcher gets the DELETED event with the last
\* job.status
JobDeleted(j, logs) ==
    /\ k8s[j].phase = "deleting"
    /\ LET base == [k8s EXCEPT ![j].phase = "gone"]
       IN IF watcher[j] = "watch" THEN Watched(j, k8s[j], logs, base)
          ELSE NotWatched(base)
    /\ UNCHANGED <<scanVars, fpVars, watchVars, mergeVars, errVars, chat, load, file_path, rejected, restopped, active_connections, files, conn, closing, names, answer, stopped,
                   delivered>>

\* the stream raises (the API server is gone, 410 Gone, ...): except, finally
WatchFails(k) ==
    /\ watcher[k] \in {"list", "watch"}
    /\ Store(update_job_statuses(St, k, JobStatus("Error")))
    /\ watcher' = [watcher EXCEPT ![k] = "done"]
    /\ watch_control' = [watch_control EXCEPT ![k] = NULL]
    /\ UNCHANGED <<scanVars, fpVars, watchVars, mergeVars, errVars, chat, load, file_path, rejected, restopped, active_connections, k8s, files, conn, closing, names, answer, stopped,
                   delivered>>

\* the job's container writes its output file (-o=<output root>/<unique_filename>);
\* a deleted job's pod goes on until the background deletion reaches it
WriteOutput(j) ==
    /\ k8s[j].phase \in {"live", "deleting"}
    /\ k8s[j].active = 1
    /\ Out(j) \notin files
    /\ files' = files \cup {Out(j)}
    /\ UNCHANGED <<scanVars, fpVars, watchVars, mergeVars, errVars, chat, load, file_path, rejected, restopped, job_statuses, active_connections, watch_control, watcher, k8s, conn,
                   ready, closing, names, answer, stopped, nupd, lastStatus, delivered>>

\* the names generated so far
Generated == {NameSeq[i] : i \in 1..names}

\* ---- DELETE /stop-job/{job_name} ----
\* a handler that deletes the registry entry without looking whether it is
\* there: the KeyError is answered with 500
StopEffectKeyError(reg, conns, fs, j) ==
    [reg |-> [reg EXCEPT ![j] = NoStatus],
     conns |-> IF reg[j].present THEN [conns EXCEPT ![j] = NULL] ELSE conns,
     files |-> fs,
     code |-> IF reg[j].present THEN 200 ELSE 500]

\* what the handler leaves of the registry, of active_connections and of the
\* output root, and the status code of its answer
StopEffect(reg, conns, fs, j) ==
    [reg |-> [reg EXCEPT ![j] = NoStatus],
     \* "await websocket.close" is never reached: client_state == 1 is False
     conns |-> [conns EXCEPT ![j] = NULL],
     files |-> IF reg[j].present /\ reg[j].output_path # NULL
               THEN fs \ {reg[j].output_path}
               ELSE fs,
     code |-> 200]

stop_job(j) ==
    /\ j \in Generated
    /\ k8s' = [k8s EXCEPT ![j] = delete_k8s_job(k8s[j])]
    /\ LET r == StopEffect(job_statuses, active_connections, files, j)
       IN /\ files' = r.files
          /\ Store([St EXCEPT !.reg = r.reg])
          /\ active_connections' = r.conns
          /\ stopped' = IF r.code = 200 THEN stopped \cup {j} ELSE stopped
          /\ restopped' = IF r.code = 200 /\ j \in stopped THEN restopped \cup {j}
                          ELSE restopped
    /\ UNCHANGED <<scanVars, fpVars, watchVars, mergeVars, errVars, chat, load, file_path, rejected, watch_control, watcher, conn, closing, names, answer, delivered>>

\* ---- GET /download/{job_name} ----
\* the status code of the response in the current state; 500 is the
\* FileResponse whose file does not exist
get_job_file(j) ==
    LET job_status == job_statuses[j]
    IN IF ~job_status.present \/ job_status.output_path = NULL THEN 404
       ELSE IF job_status.output_path \in files THEN 200
       ELSE 500

\* ---- /ws/job-status/{job_name}: websocket_endpoint ----
\* accept, then send the initial status; the handler waits in send_json.
\* initial: while the handler waits, the timestamp of the registry entry the
\* initial status was read from, 0 when there was none; sent (history): the
\* newest timestamp among the notifications notify_websocket sent to it
WsAccept(c, j) ==
    /\ conn[c].pc = "idle"
    /\ Cardinality({d \in Conns : conn[d].pc # "idle"}) < load.sockets
    /\ conn' = [conn EXCEPT ![c] = [pc |-> "accepted", job |-> j, open |-> TRUE,
                                    initial |-> job_statuses[j].timestamp,
                                    late |-> FALSE, sent |-> 0]]
    /\ UNCHANGED <<scanVars, fpVars, watchVars, mergeVars, errVars, chat, load, file_path, rejected, restopped, job_statuses, active_connections, watch_control, watcher, k8s, files,
                   ready, closing, names, answer, stopped, nupd, lastStatus, delivered>>

\* a registration that schedules no notification
register_websocket_silent(q, j) == q

\* register_websocket on the loop's queue: when the job has a registry entry,
\* asyncio.create_task(notify_websocket(status_object)) with the entry as it is
register_websocket(q, j) ==
    IF job_statuses[j].present
    THEN Enqueue(q, [job |-> j, ts |-> job_statuses[j].timestamp,
                     status |-> job_statuses[j].status,
                     hop |-> "task", kind |-> "snapshot"])
    ELSE q

\* register_websocket(job_name, websocket), then the handler waits in
\* receive_text.  late (history, kept in the behaviours with one websocket):
\* the registry entry is not the one the initial status was read from
WsRegister(c) ==
    /\ conn[c].pc = "accepted"
    /\ conn[c].open
    /\ LET j == conn[c].job
       IN /\ active_connections' = [active_connections EXCEPT ![j] = c]
          /\ ready' = register_websocket(ready, j)
    /\ conn' = [conn EXCEPT ![c].pc = "loop", ![c].initial = 0,
                            ![c].late = load.sockets = 1
                                        /\ job_statuses[conn[c].job].present
                                        /\ job_statuses[conn[c].job].timestamp
                                               # conn[c].initial]
    /\ UNCHANGED <<scanVars, fpVars, watchVars, mergeVars, errVars, chat, load, file_path, rejected, restopped, job_statuses, watch_control, watcher, k8s, files, closing, names, answer,
                   stopped, nupd, lastStatus, delivered>>

\* the finally block: the registration goes if it is this websocket's
Cleanup(c) ==
    /\ active_connections' =
          IF active_connections[conn[c].job] = c
          THEN [active_connections EXCEPT ![conn[c].job] = NULL]
          ELSE active_connections
    /\ conn' = [conn EXCEPT ![c] = [pc |-> "closed", job |-> conn[c].job,
                                    open |-> FALSE, initial |-> 0,
                                    late |-> FALSE, sent |-> 0]]

\* the client sends "close" or disconnects
WsLeave(c) ==
    /\ conn[c].pc \in {"accepted", "loop"}
    /\ conn[c].open
    /\ Cleanup(c)
    /\ UNCHANGED <<scanVars, fpVars, watchVars, mergeVars, errVars, chat, load, file_path, rejected, restopped, job_statuses, watch_control, watcher, k8s, files, ready, closing, names,
                   answer, stopped, nupd, lastStatus, delivered>>

\* a reply that is the last status the registry had for the job
current_status_last(j) == IF lastStatus[j] = NULL THEN "Unknown" ELSE lastStatus[j]

\* k8s_job_statuses.get(job_name, {"status": "Unknown"}).get("status", "Unknown")
current_status(j) ==
    IF job_statuses[j].present THEN job_statuses[j].status ELSE "Unknown"

\* data == "close": await websocket.close(); break; finally
WsCloseMessage(c) ==
    /\ load.chat
    /\ conn[c].pc = "loop"
    /\ conn[c].open
    /\ Cleanup(c)
    /\ chat' = [chat EXCEPT ![c] = [event |-> "close", sent |-> "none", status |-> NULL]]
    /\ UNCHANGED <<scanVars, fpVars, watchVars, mergeVars, errVars, load, file_path, rejected, restopped,
                   job_statuses, watch_control, watcher, k8s, files, ready, closing, names,
                   answer, stopped, nupd, lastStatus, delivered>>

\* any other text: send_json of the job's current status
WsTextMessage(c) ==
    /\ load.chat
    /\ conn[c].pc = "loop"
    /\ conn[c].open
    /\ chat' = [chat EXCEPT ![c] = [event |-> "text", sent |-> "status",
                                    status |-> current_status(conn[c].job)]]
    /\ UNCHANGED <<scanVars, fpVars, watchVars, mergeVars, errVars, load, file_path, rejected, restopped,
                   job_statuses, active_connections, watch_control, watcher, k8s, files, conn,
                   ready, closing, names, answer, stopped, nupd, lastStatus, delivered>>

\* asyncio.TimeoutError: send_json({"type": "ping", "job_name": job_name});
\* when the send raises: break; finally
WsTimeout(c, sendOk) ==
    /\ load.chat
    /\ conn[c].pc = "loop"
    /\ conn[c].open
    /\ IF sendOk
       THEN /\ chat' = [chat EXCEPT ![c] = [event |-> "timeout", sent |-> "ping",
                                            status |-> NULL]]
            /\ UNCHANGED <<active_connections, conn>>
       ELSE /\ chat' = [chat EXCEPT ![c] = [event |-> "pingfail", sent |-> "none",
                                            status |-> NULL]]
            /\ Cleanup(c)
    /\ UNCHANGED <<scanVars, fpVars, watchVars, mergeVars, errVars, load, file_path, rejected, restopped,
                   job_statuses, watch_control, watcher, k8s, files, ready, closing, names,
                   answer, stopped, nupd, lastStatus, delivered>>

\* the handler finds its websocket closed by notify_websocket
WsHandlerExit(c) ==
    /\ conn[c].pc \in {"accepted", "loop"}
    /\ ~conn[c].open
    /\ Cleanup(c)
    /\ UNCHANGED <<scanVars, fpVars, watchVars, mergeVars, errVars, chat, load, file_path, rejected, restopped, job_statuses, watch_control, watcher, k8s, files, ready, closing, names,
                   answer, stopped, nupd, lastStatus, delivered>>

\* ---- the event loop runs what update_job_statuses scheduled ----
\* the callback of run_coroutine_threadsafe: ensure_future(coro) makes the task
NotifyCallback ==
    /\ ready # <<>>
    /\ Head(ready).hop = "callback"
    /\ ready' = Enqueue(Tail(ready), [Head(ready) EXCEPT !.hop = "task"])
    /\ UNCHANGED <<scanVars, fpVars, watchVars, mergeVars, errVars, chat, load, file_path, rejected, restopped, job_statuses, active_connections, watch_control, watcher, k8s, files,
                   conn, closing, names, answer, stopped, nupd, lastStatus, delivered>>

\* notify_websocket(job_status) up to "await connection.close()"
notify_websocket ==
    /\ ready # <<>>
    /\ Head(ready).hop = "task"
    /\ ready' = Tail(ready)
    /\ LET n == Head(ready)
           c == active_connections[n.job]
       IN IF c = NULL
          THEN UNCHANGED <<active_connections, conn, closing, delivered>>
          ELSE IF conn[c].open
          THEN \* send_json; a final status: connection.close()
               /\ delivered' = IF n.kind = "patch" THEN [delivered EXCEPT ![c] = n.ts]
                               ELSE delivered
               /\ IF n.status \in AUTHORIZED_STATUSES
                  THEN /\ conn' = [conn EXCEPT ![c].open = FALSE,
                                               ![c].sent = Max(@, n.ts)]
                       /\ closing' = closing \cup {n.job}
                  ELSE /\ conn' = [conn EXCEPT ![c].sent = Max(@, n.ts)]
                       /\ UNCHANGED closing
               /\ UNCHANGED active_connections
          ELSE \* send_json raises: handle_notification_error
               /\ active_connections' = [active_connections EXCEPT ![n.job] = NULL]
               /\ UNCHANGED <<conn, closing, delivered>>
    /\ UNCHANGED <<scanVars, fpVars, watchVars, mergeVars, errVars, chat, load, file_path, rejected, restopped, job_statuses, watch_control, watcher, k8s, files, names, answer, stopped,
                   nupd, lastStatus>>

\* a notify_websocket that returns after connection.close() without the del
NotifyClosedKeep(j) ==
    /\ j \in closing
    /\ closing' = closing \ {j}
    /\ UNCHANGED <<scanVars, fpVars, watchVars, mergeVars, errVars, chat, active_connections, load, file_path, rejected, restopped, job_statuses, watch_control, watcher, k8s, files, conn, ready, names,
                   answer, stopped, nupd, lastStatus, delivered>>

\* notify_websocket after connection.close(): del active_connections[job_name]
NotifyClosed(j) ==
    /\ j \in closing
    /\ closing' = closing \ {j}
    /\ active_connections' = [active_connections EXCEPT ![j] = NULL]
    /\ UNCHANGED <<scanVars, fpVars, watchVars, mergeVars, errVars, chat, load, file_path, rejected, restopped, job_statuses, watch_control, watcher, k8s, files, conn, ready, names,
                   answer, stopped, nupd, lastStatus, delivered>>

ApiNext ==
    \/ \E p \in Paths, created \in BOOLEAN, threadOk \in BOOLEAN :
          start_job(p, created, threadOk)
    \/ \E p \in Paths : start_job_rejected(p)
    \/ \E k \in RegKeys : WatcherBegin(k)
    \/ \E k \in RegKeys, logs \in LogResults : WatchInitial(k, logs)
    \/ \E j \in JobNames, next \in JobObjects, logs \in LogResults :
          JobEvent(j, next, logs)
    \/ \E j \in JobNames, logs \in LogResults : JobDeleted(j, logs)
    \/ \E k \in RegKeys : WatchFails(k)
    \/ \E j \in JobNames : WriteOutput(j)
    \/ \E j \in JobNames : stop_job(j)
    \/ \E c \in Conns, j \in JobNames : WsAccept(c, j)
    \/ \E c \in Conns : WsRegister(c)
    \/ \E c \in Conns : WsLeave(c)
    \/ \E c \in Conns : WsHandlerExit(c)
    \/ \E c \in Conns : WsCloseMessage(c)
    \/ \E c \in Conns : WsTextMessage(c)
    \/ \E c \in Conns, sendOk \in BOOLEAN : WsTimeout(c, sendOk)
    \/ NotifyCallback
    \/ notify_websocket
    \/ \E j \in JobNames : NotifyClosed(j)

\* no directory is fingerprinted
FpIdle ==
    /\ fpDir = {}
    /\ fpWalk = <<>>
    /\ fpDigest = ""

\* no thread is followed one by one
WatchIdle ==
    /\ thread = <<>>
    /\ lastStep = <<>>

\* no registry entry is followed field by field
MergeIdle ==
    /\ entry = <<>>
    /\ patch = <<>>
    /\ mclock = 0

\* ------------------------------------------------------------------------
\* One registry entry, field by field: update_job_statuses
\* ------------------------------------------------------------------------
\* calls of update_job_statuses in one behaviour
MaxUpdates == 3

\* fields of JobStatus that a patch can carry
Fields == {"status", "output_path", "logs"}
\* what a field can hold
FieldValues == {"x", "y"}
\* the field was not passed to JobStatus(...)
Unset == "unset"
\* the dict has no such key
Absent == "absent"

\* the JobStatus objects: a field is not passed, passed as None, or passed
\* with a value
Patches == [Fields -> FieldValues \cup {Unset, NULL}]

\* current_status = job_statuses.get(job_name, {}) for a job without entry
EmptyDict == [f \in Fields |-> Absent]

\* job_status.dict(exclude_unset=True, exclude_none=True): the keys it has
new_status(job_status) ==
    {f \in Fields : job_status[f] # Unset /\ job_status[f] # NULL}

\* {**current_status, **new_status}
merged_status(current, job_status) ==
    [f \in Fields |-> IF f \in new_status(job_status) THEN job_status[f]
                      ELSE current[f]]

\* update_job_statuses(job_name, job_status, loop) on the entry of job_name
UpdateEntry(job_status) ==
    /\ mclock < MaxUpdates
    /\ entry' = merged_status(entry, job_status)
    /\ patch' = job_status
    /\ mclock' = mclock + 1
    /\ UNCHANGED <<scanVars, apiVars, fpVars, watchVars, errVars>>

MergeNext == \E job_status \in Patches : UpdateEntry(job_status)

\* no call of collect_changed_folders is followed statement by statement
ErrIdle == raised = <<>>

\* ------------------------------------------------------------------------
\* A directory that changes and is fingerprinted after each change
\* ------------------------------------------------------------------------
\* the files a directory can hold: names with and without "|" and "\n", two
\* sizes, two modification times
FpPaths == {PathOrder[i] : i \in DOMAIN PathOrder}
FpSizes == {1, 2}
FpMtimes == {1, 2}
FpFileInfo == FpPaths \X FpSizes \X FpMtimes

\* fingerprint(path) is called on the directory that holds the files t and
\* os.walk gives them in the order w
Fingerprinted(t, w) ==
    /\ w \in os_walk(t)
    /\ fpDir' = t
    /\ fpWalk' = w
    /\ fpDigest' = hexdigest(w)
    /\ UNCHANGED <<scanVars, apiVars, watchVars, mergeVars, errVars>>

\* a file is added
AddFile(x) ==
    /\ Cardinality(fpDir) < MaxFiles
    /\ \A y \in fpDir : y[1] # x[1]
    /\ \E w \in os_walk(fpDir \cup {x}) : Fingerprinted(fpDir \cup {x}, w)

\* a file is removed
RemoveFile(x) ==
    /\ x \in fpDir
    /\ \E w \in os_walk(fpDir \ {x}) : Fingerprinted(fpDir \ {x}, w)

\* a file gets another name
RenameFile(x, q) ==
    /\ x \in fpDir
    /\ \A y \in fpDir : y[1] # q
    /\ LET t == (fpDir \ {x}) \cup {<<q, x[2], x[3]>>}
       IN \E w \in os_walk(t) : Fingerprinted(t, w)

\* a file gets another size
ResizeFile(x, size) ==
    /\ x \in fpDir
    /\ size # x[2]
    /\ LET t == (fpDir \ {x}) \cup {<<x[1], size, x[3]>>}
       IN \E w \in os_walk(t) : Fingerprinted(t, w)

\* a file gets another modification time
TouchFile(x, mtime) ==
    /\ x \in fpDir
    /\ mtime # x[3]
    /\ LET t == (fpDir \ {x}) \cup {<<x[1], x[2], mtime>>}
       IN \E w \in os_walk(t) : Fingerprinted(t, w)

\* fingerprint is called again on the directory as it is
FingerprintAgain ==
    \E w \in os_walk(fpDir) : Fingerprinted(fpDir, w)

FpNext ==
    \/ \E x \in FpFileInfo : AddFile(x)
    \/ \E x \in FpFileInfo : RemoveFile(x)
    \/ \E x \in FpFileInfo, q \in FpPaths : RenameFile(x, q)
    \/ \E x \in FpFileInfo, size \in FpSizes : ResizeFile(x, size)
    \/ \E x \in FpFileInfo, mtime \in FpMtimes : TouchFile(x, mtime)
    \/ FingerprintAgain

\* ------------------------------------------------------------------------
\* The watcher threads of one job, thread by thread:
\* start_watching_job, stop_watching_job, watch_job_status_thread
\* ------------------------------------------------------------------------
\* threads start_watching_job starts in one behaviour
MaxThreads == 2
Tids == 1..MaxThreads
\* the job whose watchers are followed
WatchedJob == NameSeq[1]

\* what a watcher thread did last: t the thread; kind "stopped" (the stop
\* check), "other" (another job's event), "applied", "raised" (the loop's body
\* raised) or "broken" (the stream raised); logs what get_log_job_status
\* handed back, NULL when it was not called
NoStep == [t |-> 0, kind |-> "none", logs |-> NULL]

\* a thread that start_watching_job has not started.  pc: "none", "failed"
\* (thread.start() raised), "started", "watching", "done"; stream: the events
\* w.stream has for the thread; stopReq: stop_watching_job was called since
\* the thread was started
NoThread == [pc |-> "none", stream |-> <<>>, stopReq |-> FALSE]

\* a thread that has returned
Returned == [NoThread EXCEPT !.pc = "done"]

\* the condition lists of job.status.conditions: the job controller appends
\* conditions, Suspended when the job is suspended or resumed
ConditionLists == {<<>>, <<"Suspended">>, <<"Suspended", "Complete">>}
                  \cup {<<t>> : t \in ConditionTypes}
WatchObjects == [phase : {"live"}, active : {0, 1}, conditions : ConditionLists]

\* job.status as the job controller moves it
WatchSuccessors(s) ==
    IF s.conditions = <<>>
    THEN IF s.active = 0
         THEN {[s EXCEPT !.active = 1], [s EXCEPT !.conditions = <<"Suspended">>]}
         ELSE Successors(s)
    ELSE IF s.conditions = <<"Suspended">>
    THEN IF s.active = 0
         THEN {[s EXCEPT !.active = 1]}
         ELSE {[s EXCEPT !.active = 0, !.conditions = <<"Suspended", "Complete">>]}
    ELSE {}

\* the event of the namespace's other job: list_namespaced_job watches the
\* jobs of the namespace, not the watched one alone
OtherEvent == [name |-> "a-job", s |-> NewJob]

\* an event reaches every stream that is open
Deliver(th, e) ==
    [t \in Tids |-> IF th[t].pc = "watching"
                    THEN [th[t] EXCEPT !.stream = Append(@, e)]
                    ELSE th[t]]

\* a finally branch that leaves the watch_control entry
FinallyKeep(wc, k) == wc

\* finally: if job_name in watch_control: del watch_control[job_name]
Finally(wc, k) == [wc EXCEPT ![k] = NULL]

\* what no step of a watcher thread or of the cluster changes
watchFrame == <<scanVars, fpVars, mergeVars, errVars, load, file_path, rejected, restopped,
                active_connections, watcher, files, conn, closing, answer, stopped,
                delivered, chat>>

\* create_k8s_job inside start_job: the cluster accepts the job
create_k8s_job(j) ==
    /\ names = 0
    /\ k8s[j].phase = "none"
    /\ names' = 1
    /\ k8s' = [k8s EXCEPT ![j] = NewJob]
    /\ Store(update_job_statuses(St, j, CreatedStatus(j)))
    /\ UNCHANGED <<watchFrame, watch_control, watchVars>>

\* start_watching_job(job_name), called by start_job after the creation and
\* by anyone who restarts the watch; threadOk: thread.start() succeeds
start_watching_job(k, threadOk) ==
    /\ k8s[k].phase # "none"
    /\ \E t \in Tids : thread[t].pc = "none"
    /\ LET t == CHOOSE t \in Tids : /\ thread[t].pc = "none"
                                    /\ \A u \in 1..(t - 1) : thread[u].pc # "none"
       IN thread' = [u \in Tids |->
                       IF u = t
                       THEN [NoThread EXCEPT !.pc = IF threadOk THEN "started"
                                                    ELSE "failed"]
                       ELSE thread[u]]
    \* if job_name in watch_control: watch_control[job_name] = False
    /\ watch_control' = IF watch_control[k] # NULL
                        THEN [watch_control EXCEPT ![k] = "False"]
                        ELSE watch_control
    /\ IF threadOk THEN UNCHANGED <<job_statuses, ready, nupd, lastStatus>>
       ELSE Store(update_job_statuses(St, k, JobStatus("Error")))
    /\ UNCHANGED <<watchFrame, names, k8s, lastStep>>

\* stop_watching_job(job_name)
stop_watching_job(k) ==
    /\ k8s[k].phase # "none"
    /\ watch_control' = IF watch_control[k] # NULL
                        THEN [watch_control EXCEPT ![k] = "False"]
                        ELSE watch_control
    /\ thread' = [u \in Tids |-> IF thread[u].pc \in {"started", "watching"}
                                 THEN [thread[u] EXCEPT !.stopReq = TRUE]
                                 ELSE thread[u]]
    /\ UNCHANGED <<watchFrame, names, k8s, lastStep, job_statuses, ready,
                   nupd, lastStatus>>

\* watch_job_status_thread begins: watch_control[job_name] = True, and
\* w.stream(list_namespaced_job) opens with the jobs that exist, in the
\* order of their names: the other job, then the watched one
ThreadBegin(t) ==
    /\ thread[t].pc = "started"
    /\ watch_control' = [watch_control EXCEPT ![WatchedJob] = "True"]
    /\ LET mine == IF k8s[WatchedJob].phase \in {"live", "deleting"}
                   THEN <<[name |-> WatchedJob, s |-> k8s[WatchedJob]]>>
                   ELSE <<>>
       IN thread' = [thread EXCEPT ![t].pc = "watching",
                                   ![t].stream = <<OtherEvent>> \o mine]
    /\ UNCHANGED <<watchFrame, names, k8s, lastStep, job_statuses, ready, nupd,
                   lastStatus>>

\* one turn of the for loop of thread t; logs is what get_log_job_status
\* returns when it is called: "str" the pod's logs, "error" the text
\* "Error retrieving logs: ...", "tuple" the result of the "No pods found" branch
ThreadEvent(t, logs) ==
    /\ thread[t].pc = "watching"
    /\ thread[t].stream # <<>>
    /\ LET e == Head(thread[t].stream)
           h == HandleEvent(St, WatchedJob, e.s, logs)
           asked == e.s.conditions # <<>> /\ e.s.conditions[1] \in AUTHORIZED_STATUSES
       IN IF watch_control[WatchedJob] = "False"
          THEN \* if not watch_control.get(job_name, True): w.stop(); break
               /\ logs = "str"
               /\ thread' = [thread EXCEPT ![t] = Returned]
               /\ lastStep' = [t |-> t, kind |-> "stopped", logs |-> NULL]
               /\ watch_control' = Finally(watch_control, WatchedJob)
               /\ UNCHANGED <<k8s, job_statuses, ready, nupd, lastStatus>>
          ELSE IF e.name # WatchedJob
          THEN \* if job.metadata.name == job_name: no
               /\ logs = "str"
               /\ thread' = [thread EXCEPT ![t].stream = Tail(@)]
               /\ lastStep' = [t |-> t, kind |-> "other", logs |-> NULL]
               /\ UNCHANGED <<watch_control, k8s, job_statuses, ready, nupd,
                              lastStatus>>
          ELSE /\ asked \/ logs = "str"
               /\ Store(h.st)
               /\ thread' = [thread EXCEPT ![t] =
                                IF h.outcome = "continue"
                                THEN [@ EXCEPT !.stream = Tail(@)]
                                ELSE Returned]
               /\ lastStep' = [t |-> t,
                               kind |-> IF h.outcome = "raised" THEN "raised"
                                        ELSE "applied",
                               logs |-> IF asked THEN logs ELSE NULL]
               /\ watch_control' = IF h.outcome = "continue" THEN watch_control
                                   ELSE Finally(watch_control, WatchedJob)
               /\ k8s' = IF h.outcome = "stop"
                         THEN [k8s EXCEPT ![WatchedJob] = delete_k8s_job(@)]
                         ELSE k8s
    /\ UNCHANGED <<watchFrame, names>>

\* w.stream raises in thread t (the connection breaks, the server answers
\* 410 Gone, ...): except, finally
ThreadRaises(t) ==
    /\ thread[t].pc = "watching"
    /\ Store(update_job_statuses(St, WatchedJob, JobStatus("Error")))
    /\ thread' = [thread EXCEPT ![t] = Returned]
    /\ lastStep' = [t |-> t, kind |-> "broken", logs |-> NULL]
    /\ watch_control' = Finally(watch_control, WatchedJob)
    /\ UNCHANGED <<watchFrame, names, k8s>>

\* the job controller changes job.status: a MODIFIED event
ClusterStep(next) ==
    /\ k8s[WatchedJob].phase = "live"
    /\ next \in WatchSuccessors(k8s[WatchedJob])
    /\ k8s' = [k8s EXCEPT ![WatchedJob] = next]
    /\ thread' = Deliver(thread, [name |-> WatchedJob, s |-> next])
    /\ UNCHANGED <<watchFrame, names, lastStep, watch_control, job_statuses,
                   ready, nupd, lastStatus>>

\* the deleted job goes away: a DELETED event with the last job.status
ClusterGone ==
    /\ k8s[WatchedJob].phase = "deleting"
    /\ k8s' = [k8s EXCEPT ![WatchedJob].phase = "gone"]
    /\ thread' = Deliver(thread, [name |-> WatchedJob, s |-> k8s[WatchedJob]])
    /\ UNCHANGED <<watchFrame, names, lastStep, watch_control, job_statuses,
                   ready, nupd, lastStatus>>

\* the results of get_log_job_status
WatchLogResults == {"str", "error", "tuple"}

WatchNext ==
    \/ \E j \in {WatchedJob} : create_k8s_job(j)
    \/ \E k \in {WatchedJob}, threadOk \in BOOLEAN : start_watching_job(k, threadOk)
    \/ \E k \in {WatchedJob} : stop_watching_job(k)
    \/ \E t \in Tids : ThreadBegin(t)
    \/ \E t \in Tids, logs \in WatchLogResults : ThreadEvent(t, logs)
    \/ \E t \in Tids : ThreadRaises(t)
    \/ \E next \in WatchObjects : ClusterStep(next)
    \/ ClusterGone

\* the API server is not running: its dicts and queues are empty
ApiIdle ==
    /\ job_statuses = <<>>
    /\ active_connections = <<>>
    /\ watch_control = <<>>
    /\ watcher = <<>>
    /\ k8s = <<>>
    /\ files = {}
    /\ conn = <<>>
    /\ ready = <<>>
    /\ closing = {}
    /\ names = 0
    /\ answer = <<>>
    /\ stopped = {}
    /\ nupd = <<>>
    /\ lastStatus = <<>>
    /\ delivered = <<>>
    /\ file_path = <<>>
    /\ rejected = NoPath
    /\ restopped = {}
    /\ chat = <<>>
    /\ load = [jobs |-> 0, sockets |-> 0, paths |-> FALSE, chat |-> FALSE]

\* the scanner is not running: the tree and the catalog are empty
ScanIdle ==
    /\ fsFolder = <<>>
    /\ fsMeta = <<>>
    /\ fsWrites = 0
    /\ folder_state = <<>>
    /\ potree_metacloud_state = <<>>
    /\ batchItems = {}
    /\ potreeItems = {}
    /\ tick = 0
    /\ dry_run = FALSE
    /\ max_jobs = 0
    /\ changed_folders = <<>>
    /\ metacloud_changes = <<>>
    /\ ranToEnd = FALSE
    /\ chgCur = FALSE
    /\ premItems = FALSE
    /\ premAll = FALSE
    /\ premCrash = FALSE
    /\ premChanged = FALSE

\* the scanner alone
InitScan == ScanInit /\ ApiIdle /\ FpIdle /\ WatchIdle /\ MergeIdle /\ ErrIdle

SpecScan == InitScan /\ [][ScanNext]_vars

\* the fingerprinter alone, from the empty directory
InitFp == ScanIdle /\ ApiIdle /\ FpIdle /\ WatchIdle /\ MergeIdle /\ ErrIdle

SpecFp == InitFp /\ [][FpNext]_vars

\* one registry entry alone, from the job without entry
InitMerge ==
    /\ ScanIdle /\ ApiIdle /\ FpIdle /\ WatchIdle /\ ErrIdle
    /\ entry = EmptyDict
    /\ patch = [f \in Fields |-> Unset]
    /\ mclock = 0

SpecMerge == InitMerge /\ [][MergeNext]_vars

\* the rows a folder can have in the catalog before a call
RowsBefore(k) ==
    {NoRow} \cup {[UpsertFolder(k, fingerprint(t), 0) EXCEPT !.processing_status = s] :
                     t \in Trees \ {{}}, s \in {"pending", "complete"}}

\* one call of collect_changed_folders: order is the listing of the folders,
\* errs what raises for each folder, dr the dry_run argument
Collect(order, errs, dr) ==
    /\ tick < MaxRuns
    /\ tick' = tick + 1
    /\ dry_run' = dr
    /\ raised' = errs
    /\ LET f == collect_changed_folders_try(order, folder_state, <<>>, dr, tick + 1,
                                            errs)
       IN /\ folder_state' = f.table
          /\ changed_folders' = f.worklist
    /\ UNCHANGED <<apiVars, fpVars, watchVars, mergeVars, fsFolder, fsMeta, fsWrites,
                   potree_metacloud_state, batchItems, potreeItems, max_jobs,
                   metacloud_changes, ranToEnd, chgCur, premItems, premAll,
                   premCrash, premChanged>>

CollectNext ==
    \E order \in Orders(FolderKeys), errs \in [FolderKeys -> Raises], dr \in BOOLEAN :
       Collect(order, errs, dr)

\* collect_changed_folders alone, from any tree and any catalog
InitCollect ==
    /\ ApiIdle /\ FpIdle /\ WatchIdle /\ MergeIdle
    /\ fsFolder \in [FolderKeys -> FolderContents]
    /\ folder_state \in {t \in [FolderKeys -> UNION {RowsBefore(k) : k \in FolderKeys}] :
                            \A k \in FolderKeys : t[k] \in RowsBefore(k)}
    /\ fsMeta = [m \in Missions |-> 0]
    /\ fsWrites = 0
    /\ potree_metacloud_state = [m \in Missions |-> NoRow]
    /\ batchItems = {}
    /\ potreeItems = {}
    /\ tick = 0
    /\ dry_run = FALSE
    /\ max_jobs = 0
    /\ changed_folders = <<>>
    /\ metacloud_changes = <<>>
    /\ ranToEnd = FALSE
    /\ chgCur = FALSE
    /\ premItems = FALSE
    /\ premAll = FALSE
    /\ premCrash = FALSE
    /\ premChanged = FALSE
    /\ raised = [k \in FolderKeys |-> "none"]

SpecCollect == InitCollect /\ [][CollectNext]_vars

\* the job API alone: the scanner does not run
Init == ScanIdle /\ ApiInit /\ FpIdle /\ WatchIdle /\ MergeIdle /\ ErrIdle /\ load \in Loads

Spec == Init /\ [][ApiNext]_vars

\* the API server has started and serves one job, whose watcher threads are
\* followed one by one
InitWatch ==
    /\ ScanIdle /\ ApiInit /\ FpIdle /\ MergeIdle /\ ErrIdle
    /\ load = [jobs |-> 1, sockets |-> 0, paths |-> FALSE, chat |-> FALSE]
    /\ thread = [t \in Tids |-> NoThread]
    /\ lastStep = NoStep

SpecWatch == InitWatch /\ [][WatchNext]_vars

\* the threads are daemon threads of the interpreter: each one that can take
\* a step takes it in the end; the cluster and the callers are not bound
SpecWatchFair ==
    /\ SpecWatch
    /\ \A t \in Tids : WF_vars(ThreadBegin(t))
    /\ \A t \in Tids : WF_vars(\E logs \in WatchLogResults : ThreadEvent(t, logs))

\* ------------------------------------------------------------------------
\* Properties of the scanner
\* ------------------------------------------------------------------------
F01 == <<"m01", "f01">>

\* C1: a run of the scanner adds a second-level folder to the folder worklist
\* if and only if the catalog has no record for its key, or the stored
\* fingerprint differs from the one just computed, or the stored status is
\* pending, failed or null; so a failed folder with an unchanged fingerprint is
\* emitted again and a running or complete one is not.
C1_NeedsProcessingRule ==
    [][tick' # tick =>
         \A k \in FolderKeys :
            fsFolder[k].isdir =>
               ((k \in Keys(changed_folders')) <=>
                   \/ ~folder_state[k].present
                   \/ folder_state[k].fp # fingerprint(fsFolder[k].tree)
                   \/ folder_state[k].processing_status \in {"pending", "failed", NULL})
     ]_vars

\* C1 witness: a dry run has just emitted a folder whose record is failed and
\* whose fingerprint is the stored one
C1_Witness ==
    /\ tick >= 2
    /\ dry_run
    /\ ~chgCur
    /\ F01 \in Keys(changed_folders)
    /\ fsFolder[F01].isdir
    /\ folder_state[F01].present
    /\ folder_state[F01].processing_status = "failed"
    /\ folder_state[F01].fp = fingerprint(fsFolder[F01].tree)

\* C2 as stated: two runs in succession, no write to the tree between them,
\* every item the first run emitted complete before the second: the second run
\* emits an empty folder worklist and an empty manifest worklist.
C2_Original ==
    premItems => changed_folders = <<>> /\ metacloud_changes = <<>>

\* C2 amended: two runs in succession, the first one not a dry run and run to
\* its end, no write to the tree between them, and every record of the catalog
\* complete before the second: the second run emits an empty folder worklist
\* and an empty manifest worklist.
C2_Idempotent ==
    premAll => changed_folders = <<>> /\ metacloud_changes = <<>>

\* C2 witness: the second run found the folder the first one emitted complete
C2_Witness ==
    /\ premAll
    /\ folder_state[F01].present
    /\ folder_state[F01].processing_status = "complete"
    /\ folder_state[F01].last_processed = tick - 1
    /\ changed_folders = <<>>

\* ------------------------------------------------------------------------
\* Properties of the job API
\* ------------------------------------------------------------------------
JobA == "job-a"

\* the statuses after which a job's status is final
TerminalStatuses == AUTHORIZED_STATUSES \cup {"Error"}

\* the phase of a status: Created, then Running, then a final one
Rank(status) ==
    IF status = NULL THEN 0
    ELSE IF status = "Created" THEN 1
    ELSE IF status = "Running" THEN 2
    ELSE 3

C4_TerminalAbsorbing ==
    [][\A k \in RegKeys :
          lastStatus[k] \in TerminalStatuses => lastStatus'[k] = lastStatus[k]
     ]_vars

\* C4 witness: the job reached a final status, and the cluster has since
\* deleted it
C4_Witness ==
    /\ job_statuses[JobA].present
    /\ job_statuses[JobA].status \in AUTHORIZED_STATUSES
    /\ k8s[JobA].phase = "gone"
    /\ watcher[JobA] = "done"

\* C5 as stated: when the cluster rejects the creation, start_job answers with
\* an error and the registry gets no entry for the job.
C5_AsStated ==
    \A j \in JobNames :
       answer[j].job_name = Tuple(j) =>
          /\ answer[j].code >= 400
          /\ ~job_statuses[j].present

\* C6 as stated: after a start_job whose job the cluster accepted, the registry
\* holds the job with status Created, its output_path, cli_args and created_at,
\* a watcher has been started for it, and no cluster event was waited for.
C6_AsStated ==
    [][names' # names =>
         LET j == NameSeq[names']
         IN answer'[j].job_name = j =>
               /\ answer'[j].code = 200
               /\ job_statuses'[j].present
               /\ job_statuses'[j].status = "Created"
               /\ job_statuses'[j].output_path = Out(j)
               /\ job_statuses'[j].cli_args
               /\ job_statuses'[j].created_at
               /\ watcher'[j] = "started"
               /\ k8s'[j] = NewJob
     ]_vars

\* C6 amended: after a start_job whose job the cluster accepted, the registry
\* holds the job with its output_path, cli_args and created_at, and no cluster
\* event was waited for; the status is Created and a watcher has been started,
\* or, when the watcher thread could not be started, the status is Error and
\* there is no watcher.
C6_AfterStart ==
    [][names' # names =>
         LET j == NameSeq[names']
         IN answer'[j].job_name = j =>
               /\ answer'[j].code = 200
               /\ job_statuses'[j].present
               /\ job_statuses'[j].output_path = Out(j)
               /\ job_statuses'[j].cli_args
               /\ job_statuses'[j].created_at
               /\ k8s'[j] = NewJob
               /\ \/ job_statuses'[j].status = "Created" /\ watcher'[j] = "started"
                  \/ job_statuses'[j].status = "Error" /\ watcher'[j] = "none"
     ]_vars

\* C6 witness: start_job has just answered for an accepted job
C6_Witness ==
    /\ names = 1
    /\ answer[JobA] = [code |-> 200, job_name |-> JobA]
    /\ job_statuses[JobA].status = "Created"
    /\ job_statuses[JobA].output_path = Out(JobA)
    /\ watcher[JobA] = "started"
    /\ k8s[JobA] = NewJob

\* C7 as stated: once stop_job has answered success for a job, the registry
\* has no entry for it, and no later event brings one back.
C7_AsStated ==
    \A j \in stopped : ~job_statuses[j].present

\* C8 as stated: a job has at most one live registered websocket; a new
\* registration closes the one before.
C8_AsStated ==
    \A c1, c2 \in Conns :
       (/\ c1 # c2
        /\ conn[c1].pc = "loop" /\ conn[c1].open
        /\ conn[c2].pc = "loop" /\ conn[c2].open)
       => conn[c1].job # conn[c2].job

\* C9: the patches update_job_statuses applies to a job reach the job's
\* websocket in the order applied: the timestamps of the patches delivered to
\* a websocket never go back.
C9_DeliveryOrder ==
    [][\A c \in Conns : delivered'[c] >= delivered[c]]_vars

\* C9 witness: one patch was delivered to the registered websocket and a later
\* one waits in the loop's queue
C9_Witness ==
    \E c \in Conns :
       /\ delivered[c] >= 2
       /\ conn[c].open
       /\ active_connections[conn[c].job] = c
       /\ \E i \in DOMAIN ready :
             /\ ready[i].kind = "patch"
             /\ ready[i].job = conn[c].job
             /\ ready[i].ts > delivered[c]

\* C10 as stated: the download answers 200 only when the job is Complete and
\* the file is there, and 404 in every other case.
C10_AsStated ==
    \A j \in JobNames :
       get_job_file(j) = IF /\ job_statuses[j].present
                            /\ job_statuses[j].status = "Complete"
                            /\ job_statuses[j].output_path \in files
                         THEN 200
                         ELSE 404

\* the segments of a path with its ".." segments taken out, as the file
\* system follows them from the root
RECURSIVE Resolve(_, _)
Resolve(segs, acc) ==
    IF segs = <<>> THEN acc
    ELSE IF Head(segs) = ".."
    THEN Resolve(Tail(segs), IF acc = <<>> THEN acc ELSE SubSeq(acc, 1, Len(acc) - 1))
    ELSE Resolve(Tail(segs), Append(acc, Head(segs)))

ResolvesUnderData(v) ==
    /\ v.abs
    /\ LET r == Resolve(v.segs, <<>>) IN r # <<>> /\ r[1] = "data"

\* C11 as stated: the first argument of every cluster job created through
\* start_job is a path that resolves under /data; a request whose file_path
\* resolves elsewhere is refused and creates no job.
C11_AsStated ==
    \A j \in JobNames : k8s[j].phase # "none" => ResolvesUnderData(file_path[j])

C13_AsStated ==
    [][\A j \in JobNames :
          (/\ j \in (stopped' \ stopped) \cup (restopped' \ restopped)
           /\ active_connections[j] # NULL
           /\ conn[active_connections[j]].open)
          => /\ ~conn'[active_connections[j]].open
             /\ active_connections'[j] = NULL
     ]_vars

\* C14 as stated: once stop_job has answered for a submitted job, the output
\* root holds no file of that job, however the stop and the container's
\* writing of the file interleave.
C14_AsStated ==
    \A j \in stopped : Out(j) \notin files

\* ------------------------------------------------------------------------
\* Further properties of the scanner
\* ------------------------------------------------------------------------
\* the run that begins follows a run that upserted its worklist and ended
\* where queue_batch_zip_job raised, and the tree was not written since
AfterCrash == tick' # tick /\ tick > 0 /\ ~ranToEnd /\ ~dry_run /\ ~chgCur

\* C15 as stated: a run stopped after it upserted a folder's record as pending
\* and before its batch job was submitted; the next run, the tree unchanged,
\* emits that folder again.
C15_AsStated ==
    [][AfterCrash => \A k \in Keys(changed_folders) : k \in Keys(changed_folders')]_vars

\* C15 amended: a run stopped after it upserted a folder's record as pending
\* and before its batch job was submitted; the next run, the tree unchanged,
\* emits that folder again if its record is still pending.
C15_Durable ==
    [][AfterCrash =>
         \A k \in Keys(changed_folders) :
            folder_state[k].processing_status = "pending" => k \in Keys(changed_folders')
     ]_vars

\* C15 witness: the run after such a stop has emitted the folder again
C15_Witness ==
    /\ premCrash
    /\ tick = 2
    /\ F01 \in Keys(changed_folders)
    /\ folder_state[F01].present
    /\ folder_state[F01].fp = fingerprint(fsFolder[F01].tree)

\* C16 as stated: the first scan found the fresh folder and ran to its end;
\* a second scan right after it, the tree unchanged and no job having touched
\* the catalog, emits an empty folder worklist and leaves last_processed as
\* it was.
C16_AsStated ==
    [][(/\ tick = 1 /\ tick' = 2
        /\ ~dry_run /\ ranToEnd /\ ~chgCur
        /\ F01 \in Keys(changed_folders)
        /\ \A k \in FolderKeys : folder_state[k].present =>
                                   folder_state[k].processing_status = "pending")
       => /\ changed_folders' = <<>>
          /\ \A k \in FolderKeys :
                folder_state'[k].last_processed = folder_state[k].last_processed
     ]_vars

\* C17: when a run that is no dry run finds a folder whose fingerprint is not
\* the stored one, it emits the folder, and the record then has the new
\* fingerprint, no last_processed and the status pending, whatever status it
\* had, running and complete included.
C17_FingerprintChange ==
    [][(tick' # tick /\ ~dry_run') =>
         \A k \in FolderKeys :
            (/\ fsFolder[k].isdir
             /\ folder_state[k].present
             /\ folder_state[k].fp # fingerprint(fsFolder[k].tree))
            => /\ k \in Keys(changed_folders')
               /\ folder_state'[k].fp = fingerprint(fsFolder[k].tree)
               /\ folder_state'[k].last_processed = 0
               /\ folder_state'[k].processing_status = "pending"
     ]_vars

\* C17 witness: a run has just emitted a folder whose record was complete
\* and whose tree had changed since
C17_Witness ==
    /\ ~dry_run
    /\ premChanged
    /\ F01 \in Keys(changed_folders)
    /\ folder_state[F01].fp = fingerprint(fsFolder[F01].tree)
    /\ folder_state[F01].last_processed = 0
    /\ folder_state[F01].processing_status = "pending"

\* C18 as stated: from any catalog and any tree, a dry run emits the folder
\* worklist and the manifest worklist that a run which is no dry run emits.
C18_AsStated ==
    \A order \in Orders(FolderKeys) :
       LET now == tick + 1
           fd == collect_changed_folders(order, folder_state, <<>>, TRUE, now)
           fn == collect_changed_folders(order, folder_state, <<>>, FALSE, now)
           gd == scan_for_metacloud_files(MissionOrder, fd.table, potree_metacloud_state,
                                          <<>>, TRUE, now)
           gn == scan_for_metacloud_files(MissionOrder, fn.table, potree_metacloud_state,
                                          <<>>, FALSE, now)
       IN fd.worklist = fn.worklist /\ gd.worklist = gn.worklist

\* C19: a run of scan_for_metacloud_files emits the manifest of a mission if
\* and only if the mission directory holds a .metacloud file, folder_state
\* has a record with that mission_key, and potree_metacloud_state has no
\* record of the mission, or a fingerprint that is not the file's, or the
\* status pending, failed or null.
C19_ManifestRule ==
    [][(tick' # tick /\ ranToEnd') =>
         \A m \in Missions :
            (m \in Keys(metacloud_changes')) <=>
               /\ fsMeta[m] # 0
               /\ \E k \in FolderKeys : /\ folder_state'[k].present
                                        /\ folder_state'[k].mission_key = m
               /\ \/ ~potree_metacloud_state[m].present
                  \/ potree_metacloud_state[m].fp # fingerprint_file(fsMeta[m])
                  \/ potree_metacloud_state[m].processing_status
                        \in {"pending", "failed", NULL}
     ]_vars

\* C19 witness: a run has just emitted the manifest of a mission whose record
\* was failed and whose file is the one fingerprinted before
C19_Witness ==
    /\ tick >= 2
    /\ ranToEnd
    /\ dry_run
    /\ ~chgCur
    /\ "m01" \in Keys(metacloud_changes)
    /\ potree_metacloud_state["m01"].present
    /\ potree_metacloud_state["m01"].processing_status = "failed"
    /\ potree_metacloud_state["m01"].fp = fingerprint_file(fsMeta["m01"])

\* ------------------------------------------------------------------------
\* Further properties of the job API
\* ------------------------------------------------------------------------
\* C20: two registry entries that have an output_path have different ones,
\* and the file of an output_path is written by the job of that entry only.
C20_OutputPathsDiffer ==
    \A k1, k2 \in RegKeys :
       (/\ k1 # k2
        /\ job_statuses[k1].present /\ job_statuses[k1].output_path # NULL
        /\ job_statuses[k2].present /\ job_statuses[k2].output_path # NULL)
       => /\ job_statuses[k1].output_path # job_statuses[k2].output_path
          /\ \A j \in JobNames : Out(j) = job_statuses[k1].output_path => j = k1

\* C20 witness: two submissions were accepted, both are in the registry with
\* their output_path, and both jobs have written their files
C20_Witness ==
    /\ \A j \in JobNames : /\ answer[j] = [code |-> 200, job_name |-> j]
                           /\ job_statuses[j].present
                           /\ job_statuses[j].output_path = Out(j)
    /\ files = {Out(j) : j \in JobNames}

\* ------------------------------------------------------------------------
\* Properties of the websocket handler's loop
\* ------------------------------------------------------------------------
\* C21: in the handler's loop, the client's "close" closes the websocket and
\* takes its registration out of active_connections; any other message is
\* answered with the status the registry has for the job at that moment
\* ("Unknown" when it has none); a receive timeout makes the handler send a
\* ping; a ping that cannot be sent ends the loop and unregisters the
\* websocket.
C21_LoopReplies ==
    [][\A c \in Conns :
          chat'[c] # chat[c] =>
             LET j == conn[c].job
             IN /\ chat'[c].event = "close" =>
                      /\ conn'[c].pc = "closed" /\ ~conn'[c].open
                      /\ active_connections'[j] # c
                /\ chat'[c].event = "text" =>
                      /\ chat'[c].sent = "status"
                      /\ chat'[c].status = IF job_statuses[j].present
                                           THEN job_statuses[j].status
                                           ELSE "Unknown"
                      /\ conn'[c] = conn[c]
                      /\ active_connections'[j] = active_connections[j]
                /\ chat'[c].event = "timeout" =>
                      /\ chat'[c].sent = "ping"
                      /\ conn'[c] = conn[c]
                      /\ active_connections'[j] = active_connections[j]
                /\ chat'[c].event = "pingfail" =>
                      /\ conn'[c].pc = "closed" /\ ~conn'[c].open
                      /\ active_connections'[j] # c
     ]_vars

\* C21 witness: the client's message has been answered with "Unknown" for a
\* job that stop_job took out of the registry after it had run
C21_Witness ==
    \E c \in Conns :
       /\ chat[c] = [event |-> "text", sent |-> "status", status |-> "Unknown"]
       /\ conn[c].pc = "loop"
       /\ lastStatus[conn[c].job] = "Running"

\* ------------------------------------------------------------------------
\* Properties of the fingerprinter
\* ------------------------------------------------------------------------
\* C22 as stated: the fingerprint of a directory depends only on the set of
\* (relative path, size, mtime) of its files: every order of enumeration and
\* every repeated call give the same value, and the value differs after a file
\* has been added, removed, renamed, or has changed its size or its mtime.
C22_AsStated ==
    [][/\ \A w \in os_walk(fpDir') : hexdigest(w) = fpDigest'
       /\ fpDir' = fpDir => fpDigest' = fpDigest
       /\ fpDir' # fpDir => fpDigest' # fpDigest
     ]_vars

\* ------------------------------------------------------------------------
\* Properties of the request's file_path
\* ------------------------------------------------------------------------
\* the files of the mounted volume, as the tests' mock of Path.is_file has
\* them: /data/a.las and nothing else
Volume == {<<"data", "a.las">>}
IsFile(v) == v.abs /\ v.segs \in Volume

\* the path under /data that the tests expect for a path
Normalised(v) ==
    IF v.abs /\ v.segs # <<>> /\ v.segs[1] = "data" THEN v
    ELSE Abs(<<"data">> \o v.segs)

\* C23 as stated: a request whose file_path is absolute and does not begin
\* with /data, or is relative, is accepted with the path put under /data
\* when that path names a file: /a.las and a.las are taken as /data/a.las.
C23_AsStated ==
    \A p \in Paths :
       (IsFile(Normalised(p)) /\ Normalised(p) # p) => rejected # p

\* C24 as stated: a request whose path under /data names no existing file
\* fails with "File does not exist", so that no job is created for it.
C24_AsStated ==
    \A j \in JobNames : k8s[j].phase # "none" => IsFile(file_path[j])

\* ------------------------------------------------------------------------
\* Properties of the watcher threads
\* ------------------------------------------------------------------------
\* thread t takes the next event of its stream in this step
Took(t) ==
    /\ thread[t].pc = "watching"
    /\ thread[t].stream # <<>>
    /\ lastStep'.t = t
    /\ lastStep'.kind # "broken"
    /\ thread'[t].pc = "done" \/ thread'[t].stream = Tail(thread[t].stream)

\* start_watching_job was called again after it started thread t, and it
\* started another thread
Superseded(t) == \E u \in Tids : u > t /\ thread[u].pc \notin {"none", "failed"}

\* thread t leaves through the stop check and applies nothing
StopsUnapplied(t) ==
    /\ thread'[t].pc = "done"
    /\ lastStep'.kind = "stopped"
    /\ job_statuses' = job_statuses
    /\ k8s' = k8s

\* C25 as stated: restarting the watch of a job stops the watcher that was
\* there before: under every interleaving the thread started first takes no
\* event any more once start_watching_job has been called again, it leaves
\* at its next event, so that one thread at most acts for the job.
C25_AsStated ==
    [][\A t \in Tids : (Took(t) /\ Superseded(t)) => StopsUnapplied(t)]_vars

\* C26 as stated: whenever stop_watching_job is called after the thread was
\* started, before or after the thread's first statement, the thread leaves
\* at its next event and does not apply the event.
C26_AsStated ==
    [][\A t \in Tids : (Took(t) /\ thread[t].stopReq) => StopsUnapplied(t)]_vars

\* a terminal condition type is in the list, at any position
HasTerminal(conditions) ==
    \E i \in DOMAIN conditions : conditions[i] \in AUTHORIZED_STATUSES

\* thread t handles, in this step, an event of the watched job that passed the
\* stop check
Handles(t) ==
    /\ Took(t)
    /\ watch_control[WatchedJob] # "False"
    /\ Head(thread[t].stream).name = WatchedJob

\* C27 as stated: when the event of the watched job carries a terminal
\* condition (Complete, SuccessCriteriaMet, Failed, FailureTarget) at any
\* position of its condition list, and the log retrieval did not break the
\* handling, the watcher sets the registry's status to that type, stores the
\* logs, deletes the cluster job and returns.
C27_AsStated ==
    [][\A t \in Tids :
          (/\ Handles(t)
           /\ HasTerminal(Head(thread[t].stream).s.conditions)
           /\ lastStep'.kind = "applied")
          => LET conditions == Head(thread[t].stream).s.conditions
             IN /\ \E i \in DOMAIN conditions :
                      /\ conditions[i] \in AUTHORIZED_STATUSES
                      /\ job_statuses'[WatchedJob].status = conditions[i]
                /\ job_statuses'[WatchedJob].logs \notin {NULL, "no logs"}
                /\ k8s'[WatchedJob].phase \in {"deleting", "gone"}
                /\ thread'[t].pc = "done"
     ]_vars

\* C28 as stated: when the log retrieval fails for a job whose first
\* condition is terminal (the log read raises, or no pod is found), the
\* registry's status is still that terminal type and its logs field holds
\* the error text.
C28_AsStated ==
    [][\A t \in Tids :
          (/\ Handles(t)
           /\ lastStep'.logs \in {"error", "tuple"})
          => /\ job_statuses'[WatchedJob].status
                   = Head(thread[t].stream).s.conditions[1]
             /\ job_statuses'[WatchedJob].logs = "error"
     ]_vars

\* C29: when the stream or the body of the loop raises in a watcher thread,
\* the registry's status of the job becomes "Error", the thread returns and
\* the job's watch_control entry is gone.
C29_ExceptionCleansUp ==
    [][\A t \in Tids :
          (/\ thread[t].pc = "watching"
           /\ thread'[t] # thread[t]
           /\ lastStep'.t = t
           /\ lastStep'.kind \in {"raised", "broken"})
          => /\ job_statuses'[WatchedJob].present
             /\ job_statuses'[WatchedJob].status = "Error"
             /\ thread'[t].pc = "done"
             /\ watch_control'[WatchedJob] = NULL
     ]_vars

\* C29 witness: the stream of a thread has raised while the thread was
\* watching; the thread has returned, the status is "Error", the entry is gone
C29_Witness ==
    /\ lastStep.kind = "broken"
    /\ thread[lastStep.t].pc = "done"
    /\ job_statuses[WatchedJob].status = "Error"
    /\ watch_control[WatchedJob] = NULL

\* ---- under fair scheduling of the threads ----
\* the first call of start_watching_job started a thread for the job
WatchStarted == thread[1].pc \in {"started", "watching", "done"}

\* the cluster's job has a terminal condition first in its list
ClusterTerminal ==
    /\ k8s[WatchedJob].conditions # <<>>
    /\ k8s[WatchedJob].conditions[1] \in AUTHORIZED_STATUSES

\* the registry has a terminal status for the job
RegistryTerminal ==
    /\ job_statuses[WatchedJob].present
    /\ job_statuses[WatchedJob].status \in AUTHORIZED_STATUSES

\* the watch was stopped or restarted by a caller, or the log retrieval
\* found no pod
WatchDisturbed ==
    \/ lastStep.kind = "stopped"
    \/ lastStep.logs = "tuple"
    \/ \E u \in Tids : u > 1 /\ thread[u].pc # "none"

Subscribed(c) ==
    /\ conn[c].pc = "loop"
    /\ conn[c].open
    /\ active_connections[conn[c].job] = c

\* a notification for job j that is at least as recent as timestamp ts waits
\* in the event loop's queue
Pending(j, ts) == \E i \in DOMAIN ready : ready[i].job = j /\ ready[i].ts >= ts

\* C31: an update the registry got before the websocket was registered, also
\* one that came after the handler's initial message, is not lost: a
\* registered websocket has been sent, or has waiting in the event loop, a
\* status at least as recent as the one the registry holds.
C31_NoLostUpdate ==
    \A c \in Conns :
       (Subscribed(c) /\ job_statuses[conn[c].job].present)
       => \/ conn[c].sent >= job_statuses[conn[c].job].timestamp
          \/ Pending(conn[c].job, job_statuses[conn[c].job].timestamp)

\* C31 witness: the only websocket got its initial message, the registry was
\* updated before the websocket was registered, and the snapshot of the
\* registration (no patch was delivered to it) brought it the update
C31_Witness ==
    \E c \in Conns :
       /\ \A d \in Conns \ {c} : conn[d].pc = "idle"
       /\ Subscribed(c)
       /\ conn[c].late
       /\ delivered[c] = 0
       /\ conn[c].sent = job_statuses[conn[c].job].timestamp
       /\ conn[c].sent >= 2

\* the step runs notify_websocket for the first entry of the loop's queue
NotifyStep == ready # <<>> /\ Head(ready).hop = "task" /\ ready' = Tail(ready)

\* the notifications update_job_statuses scheduled for job k in this step
Scheduled(k) ==
    {ready'[i] : i \in {n \in DOMAIN ready' : /\ ready'[n].job = k
                                              /\ ready'[n].kind = "patch"
                                              /\ ready'[n].ts > nupd[k]}}

\* C32: every update of the registry entry of a job that has a registered
\* subscriber schedules a notification for that job, the last one with the
\* merged status; a notification that is run is sent to the job's subscriber,
\* and when the send fails the job's subscriber is removed from
\* active_connections.
C32_UpdateNotifies ==
    [][/\ \A k \in RegKeys :
             (nupd'[k] > nupd[k] /\ active_connections[k] # NULL)
             => /\ \A ts \in (nupd[k] + 1)..nupd'[k] :
                      \E n \in Scheduled(k) : n.ts = ts
                /\ \E n \in Scheduled(k) :
                      /\ n.ts = job_statuses'[k].timestamp
                      /\ n.status = job_statuses'[k].status
       /\ (NotifyStep /\ active_connections[Head(ready).job] # NULL)
          => LET n == Head(ready)
                 c == active_connections[n.job]
             IN IF conn[c].open
                THEN /\ conn'[c].sent >= n.ts
                     /\ n.kind = "patch" => delivered'[c] = n.ts
                ELSE active_connections'[n.job] = NULL]_vars

\* C32 witness: a patch was delivered to a websocket and closed it; a later
\* notification failed on the closed websocket and removed it from
\* active_connections while connection.close() of the first had not returned
C32_Witness ==
    \E c \in Conns :
       /\ conn[c].pc = "loop"
       /\ ~conn[c].open
       /\ delivered[c] >= 1
       /\ conn[c].job \in closing
       /\ conn[c].job \notin stopped
       /\ active_connections[conn[c].job] = NULL

\* ------------------------------------------------------------------------
\* Properties of the merge
\* ------------------------------------------------------------------------
\* entry.get(f): what a reader of the entry finds for field f
Get(e, f) == IF e[f] = Absent THEN NULL ELSE e[f]

\* C33: update_job_statuses merges the patch into the entry: a field the patch
\* does not give keeps its value, and a field the patch gives, as a value or
\* as an explicit None, takes what the patch gives.
C33_AsStated ==
    [][mclock' = mclock + 1
       => \A f \in Fields :
             Get(entry', f) = IF patch'[f] = Unset THEN Get(entry, f)
                              ELSE patch'[f]]_vars

\* ------------------------------------------------------------------------
\* Properties of watch_control
\* ------------------------------------------------------------------------
\* thread t is in the for loop over the stream
InWatchLoop(t) == thread[t].pc = "watching"

\* thread t has been started and has not returned
Running(t) == thread[t].pc \in {"started", "watching"}

\* C34: watch_control mirrors the running watchers: while a watcher thread of
\* the job is in its watch loop, watch_control has an entry for the job, and
\* while no watcher thread of the job is running, it has none.
C34_AsStated ==
    /\ (\E t \in Tids : InWatchLoop(t)) => watch_control[WatchedJob] # NULL
    /\ (\A t \in Tids : ~Running(t)) => watch_control[WatchedJob] = NULL

\* ------------------------------------------------------------------------
\* Properties of the registrations
\* ------------------------------------------------------------------------
\* websocket d is registered for the job that websocket c, still in its
\* handler's loop, was registered for
Replaced(c, d) ==
    /\ c # d
    /\ conn[c].pc = "loop"
    /\ conn[d].pc = "loop"
    /\ conn[d].open
    /\ conn[c].job = conn[d].job
    /\ active_connections[conn[d].job] = d

\* the handler of c runs its finally block in this step
HandlerCleanup(c) == conn[c].pc = "loop" /\ conn'[c].pc = "closed"

\* connection.close() of notify_websocket returns for c in this step, and
\* notify_websocket goes on to its del
ServerCleanup(c) ==
    /\ ~conn[c].open
    /\ conn[c].job \in closing
    /\ conn[c].job \notin closing'

\* C35: when a websocket that was replaced by a newer subscriber of the same
\* job disconnects or is closed, the cleanup that follows leaves the newer
\* subscriber's entry in active_connections as it is.
C35_AsStated ==
    [][\A c, d \in Conns :
          (Replaced(c, d) /\ (HandlerCleanup(c) \/ ServerCleanup(c)))
          => active_connections'[conn[d].job] = d]_vars

\* C36: a websocket that notify_websocket sends a status of Complete,
\* SuccessCriteriaMet, Failed or FailureTarget, as a patch or as the snapshot
\* of its registration for a job already in that status, is closed by the
\* server in the same run of notify_websocket; when connection.close() has
\* returned the job has no entry in active_connections, and until then a
\* closed websocket that is still registered has that removal waiting.
C36_TerminalCloses ==
    [][/\ (NotifyStep /\ active_connections[Head(ready).job] # NULL)
          => LET n == Head(ready)
                 c == active_connections[n.job]
             IN (conn[c].open /\ n.status \in AUTHORIZED_STATUSES)
                => ~conn'[c].open /\ n.job \in closing'
       /\ \A j \in closing \ closing' : active_connections'[j] = NULL
       /\ \A c \in Conns :
             (/\ conn'[c].pc = "loop"
              /\ ~conn'[c].open
              /\ active_connections'[conn'[c].job] = c)
             => conn'[c].job \in closing']_vars

\* C36 witness: the only websocket subscribed to a job that was already in a
\* terminal status, was sent the snapshot of its registration and nothing
\* else, was closed, and is no longer in active_connections
C36_Witness ==
    \E c \in Conns :
       /\ \A d \in Conns \ {c} : conn[d].pc = "idle"
       /\ conn[c].pc = "loop"
       /\ ~conn[c].open
       /\ delivered[c] = 0
       /\ conn[c].sent = job_statuses[conn[c].job].timestamp
       /\ job_statuses[conn[c].job].status \in AUTHORIZED_STATUSES
       /\ conn[c].job \notin closing
       /\ active_connections[conn[c].job] = NULL
       /\ ready = <<>>

\* ------------------------------------------------------------------------
\* Properties of the submission
\* ------------------------------------------------------------------------
\* this step is a run of main() that is no dry run and whose
\* queue_batch_zip_job created the batch job
Submits ==
    /\ tick' = tick + 1
    /\ ~dry_run'
    /\ ranToEnd'
    /\ changed_folders' # <<>>

\* the items queue_batch_zip_job was given in this step
Submitted == Keys(Truncate(changed_folders', max_jobs'))

\* C37: when a run of the scanner submits the batch job of a worklist, the
\* record of every folder of that worklist is running when the run ends.
C37_AsStated ==
    [][Submits => \A k \in Submitted :
                     folder_state'[k].processing_status = "running"]_vars

\* ------------------------------------------------------------------------
\* Properties of --max-jobs
\* ------------------------------------------------------------------------
\* the last run was no dry run, its worklist was longer than --max-jobs, and
\* it submitted the truncated worklist
Truncated ==
    /\ ~dry_run
    /\ ranToEnd
    /\ max_jobs > 0
    /\ Len(changed_folders) > max_jobs

\* the folders of the last run's worklist that were not submitted
LeftOut == Keys(changed_folders) \ Keys(Truncate(changed_folders, max_jobs))

\* this step is the next run of main()
NextScan == tick' = tick + 1

Collected == tick' = tick + 1

\* the files of tree t whose os.stat did not raise
Readable(t, kind) == IF kind = "stat" THEN {x \in t : x[1] # Unreadable} ELSE t

\* C39 as stated: outside dry-run, when collect_changed_folders returns, every
\* item of its worklist has a catalog record with the item's fingerprint and
\* status pending, whatever raised for single folders; and a folder for which
\* nothing raised is evaluated by the rule whatever raised for the others.
C39_AsStated ==
    [][Collected
       => /\ ~dry_run'
             => \A i \in DOMAIN changed_folders' :
                   LET row == folder_state'[changed_folders'[i][1]]
                   IN /\ row.present
                      /\ row.fp = changed_folders'[i][2]
                      /\ row.processing_status = "pending"
          /\ \A k \in FolderKeys :
                (fsFolder[k].isdir /\ raised'[k] = "none")
                => (k \in Keys(changed_folders')
                      <=> NeedsProcessing(folder_state[k],
                                          fingerprint(fsFolder[k].tree)))
     ]_vars

\* C40 as stated: when os.stat of a file raises during the walk of a folder,
\* the folder is fingerprinted from the files that could be read and the
\* needs-processing rule is applied to it in the same call.
C40_AsStated ==
    [][Collected
       => \A k \in FolderKeys :
             (fsFolder[k].isdir /\ raised'[k] = "stat")
             => LET fp == fingerprint(Readable(fsFolder[k].tree, "stat"))
                IN NeedsProcessing(folder_state[k], fp)
                   => \E i \in DOMAIN changed_folders' :
                         changed_folders'[i] = <<k, fp>>
     ]_vars

====
